---- MODULE Spec2Model ----
(***************************************************************************)
(* A model of the Bard's Assistant interaction and content-selection       *)
(* engine: the button debouncer (lib/button/button.cpp), the insults       *)
(* engine (lib/insults/insults.cpp): shuffle deck, history ring buffer and *)
(* the begin/poll operation state machine, and the host application of     *)
(* src/main.cpp: setup(), loop() and the operation it starts and polls.    *)
(*                                                                         *)
(* C arrays are functions over 0..n-1.  A uint32_t time stamp is a record  *)
(* [hi, lo] of two 16-bit halves, so that 32-bit wraparound is kept.       *)
(***************************************************************************)
EXTENDS Integers, Sequences, FiniteSets, TLC

VARIABLES
    \* ---- insults.cpp: module state ----
    insultCount,           \* number of configured content items (N)
    deck,                  \* deck[0..N-1]
    deckPosition,
    history,               \* history[0..HISTORY_CAP-1]
    historyHead,
    historySize,
    historyPosition,
    currentInsultIndex,
    pendingAction,
    operationPhase,
    operationIsNewInsult,
    operationStartedAt,
    pendingInsultIndex,
    nvs,                   \* the keys of the NVS namespace "bards"
    \* ---- button.cpp: one Button and its environment ----
    button,                \* the Button struct
    pin,                   \* the level digitalRead(button.pin) returns now
    now,                   \* millis(), a uint32_t
    \* ---- main.cpp: the host application ----
    currentState,          \* ApplicationState
    stateEnteredAt,
    led,                   \* what the status LED shows
    loopFrame,             \* where setup()/loop() is, and loop()'s events
    \* ---- observation ----
    call,                  \* the operation the last step ran
    ret,                   \* what it returned
    obs                    \* observer record: what a test harness would log

deckVars    == <<deck, deckPosition>>
historyVars == <<history, historyHead, historySize, historyPosition>>
opVars      == <<currentInsultIndex, pendingAction, operationPhase,
                 operationIsNewInsult, operationStartedAt, pendingInsultIndex>>
engineVars  == <<insultCount, deckVars, historyVars, opVars>>
buttonVars  == <<button, pin, now>>
hostVars    == <<currentState, stateEnteredAt, led, loopFrame>>
vars        == <<engineVars, nvs, buttonVars, hostVars, call, ret, obs>>

-----------------------------------------------------------------------------
(* Bounds of the model *)

\* Largest number of content items a build is checked with.
MaxCount == 4
\* How many appends beyond the capacity the history runs are followed for.
ExtraAppends == 2
\* The appended values are 0..MaxValue (any uint16_t index may be appended).
MaxValue == 2

(* Program constants *)

\* The number of entries of the insults[] table the program ships with.
ShippedInsults == 4

DEBOUNCE_TIME_MS == 30
HOLD_THRESHOLD_MS == 800
MOCK_WORK_MS == 800

-----------------------------------------------------------------------------
(* uint32_t arithmetic on [hi, lo] halves *)

Half == 65536

U32(h, l) == [hi |-> h, lo |-> l]

\* a + d (mod 2^32), for a small non-negative d
U32Add(a, d) ==
    LET s == a.lo + d
    IN  [hi |-> (a.hi + (s \div Half)) % Half, lo |-> s % Half]

\* A difference that stops at 0 instead of wrapping.
U32SubNoWrap(a, b) ==
    IF a.hi < b.hi \/ (a.hi = b.hi /\ a.lo < b.lo) THEN [hi |-> 0, lo |-> 0]
    ELSE LET l == a.lo - b.lo
             borrow == IF l < 0 THEN 1 ELSE 0
         IN  [hi |-> a.hi - b.hi - borrow, lo |-> (l + Half) % Half]

\* a - b (mod 2^32)
U32Sub(a, b) ==
    LET l == a.lo - b.lo
        borrow == IF l < 0 THEN 1 ELSE 0
    IN  [hi |-> (a.hi - b.hi - borrow + Half) % Half, lo |-> (l + Half) % Half]

\* x < k, for a constant k below 2^16
U32Less(x, k) == x.hi = 0 /\ x.lo < k

-----------------------------------------------------------------------------
(* ShuffleDeck: initDeck, drawFromDeck *)

Swap(d, i, r) == [d EXCEPT ![i] = d[r], ![r] = d[i]]

\* A swap that loses the saved element: deck[i] = deck[r] without deck[r] = tmp.
SwapLost(d, i, r) == [d EXCEPT ![i] = d[r]]

\* Lines 84-86: tmp = deck[i]; deck[i] = deck[r]; deck[r] = tmp.
SwapEntries(d, i, r) == Swap(d, i, r)

\* The Fisher-Yates loop from position i down to 1; random(0, i+1) is any of 0..i.
RECURSIVE ShuffleFrom(_, _)
ShuffleFrom(d, i) ==
    IF i <= 0 THEN {d}
    ELSE UNION {ShuffleFrom(SwapEntries(d, i, r), i - 1) : r \in 0..i}

\* Line 82: the loop starts at i = insultCount - 1, computed in size_t.
ShuffleStart(n) == U32Sub(U32(0, n), U32(0, 1))

\* The loop at line 82 runs (i > 0) from an i that is no index of
\* deck[0..n-1]: with no item, i is SIZE_MAX.
ShuffleOutOfRange(n) ==
    ShuffleStart(n) # U32(0, 0) /\ ~U32Less(ShuffleStart(n), n)

\* initDeck(): every deck it can leave (deckPosition becomes 0).  When the
\* loop runs out of range the behaviour is undefined and no deck is a defined
\* outcome: the actions that run initDeck on such a build model what follows.
InitDeck(n) ==
    IF ShuffleOutOfRange(n) THEN {}
    ELSE ShuffleFrom([i \in 0..(n - 1) |-> i], ShuffleStart(n).lo)

\* A draw that forgets to reshuffle an exhausted deck and wraps instead.
DrawNoReshuffle(n, dk, pos) ==
    IF n = 0 THEN {[deck |-> dk, deckPosition |-> pos, idx |-> 0, reshuffled |-> FALSE]}
    ELSE {[deck |-> dk, deckPosition |-> (pos % n) + 1, idx |-> dk[pos % n],
           reshuffled |-> FALSE]}

\* A draw whose reshuffle path skips deckPosition++.
DrawNoAdvance(n, dk, pos) ==
    IF n = 0 THEN {[deck |-> dk, deckPosition |-> pos, idx |-> 0, reshuffled |-> FALSE]}
    ELSE IF pos >= n
         THEN {[deck |-> d2, deckPosition |-> 0, idx |-> d2[0], reshuffled |-> TRUE] :
                  d2 \in InitDeck(n)}
         ELSE {[deck |-> dk, deckPosition |-> pos + 1, idx |-> dk[pos],
                reshuffled |-> FALSE]}

\* drawFromDeck(): every outcome [deck, deckPosition, idx]; reshuffled tells
\* whether initDeck ran.
DrawFromDeck(n, dk, pos) ==
    IF n = 0 THEN {[deck |-> dk, deckPosition |-> pos, idx |-> 0, reshuffled |-> FALSE]}
    ELSE IF pos >= n
         THEN {[deck |-> d2, deckPosition |-> 1, idx |-> d2[0], reshuffled |-> TRUE] :
                  d2 \in InitDeck(n)}
         ELSE {[deck |-> dk, deckPosition |-> pos + 1, idx |-> dk[pos],
                reshuffled |-> FALSE]}

-----------------------------------------------------------------------------
(* HistoryLog: the ring buffer *)

HISTORY_CAP == insultCount

wrapIndex(index, mod) == IF mod = 0 THEN 0 ELSE index % mod

\* The ring as one value.
Ring == [history |-> history, historyHead |-> historyHead,
         historySize |-> historySize, historyPosition |-> historyPosition]

historyOldestPhysicalIndex(h, cap) ==
    IF cap = 0 THEN 0
    ELSE wrapIndex(h.historyHead + cap - h.historySize, cap)

\* historyGetAtLogical: [ok, value]
historyGetAtLogical(h, cap, logicalPos) ==
    IF cap = 0 \/ h.historySize = 0 THEN [ok |-> FALSE, value |-> 0]
    ELSE IF logicalPos >= h.historySize THEN [ok |-> FALSE, value |-> 0]
    ELSE LET oldest == historyOldestPhysicalIndex(h, cap)
             physical == wrapIndex(oldest + logicalPos, cap)
         IN  [ok |-> TRUE, value |-> h.history[physical]]

\* An append that clamps when full instead of overwriting the oldest entry.
appendClamped(h, cap, index) ==
    IF cap = 0 THEN h
    ELSE IF h.historySize < cap
         THEN [h EXCEPT !.history = [h.history EXCEPT ![h.historyHead] = index],
                        !.historyHead = wrapIndex(h.historyHead + 1, cap),
                        !.historySize = h.historySize + 1,
                        !.historyPosition = h.historySize]
         ELSE [h EXCEPT !.historyPosition = h.historySize - 1]

\* An append that leaves the cursor where it was.
appendKeepsCursor(h, cap, index) ==
    IF cap = 0 THEN h
    ELSE LET size == IF h.historySize < cap THEN h.historySize + 1 ELSE h.historySize
         IN  [h EXCEPT !.history = [h.history EXCEPT ![h.historyHead] = index],
                       !.historyHead = wrapIndex(h.historyHead + 1, cap),
                       !.historySize = size]

\* appendToHistory(index) on h, any record that holds the four ring fields.
appendToHistory(h, cap, index) ==
    IF cap = 0 THEN h
    ELSE LET size == IF h.historySize < cap THEN h.historySize + 1 ELSE h.historySize
         IN  [h EXCEPT !.history = [h.history EXCEPT ![h.historyHead] = index],
                       !.historyHead = wrapIndex(h.historyHead + 1, cap),
                       !.historySize = size,
                       !.historyPosition = size - 1]

-----------------------------------------------------------------------------
(* Values of the variables a specification does not use *)

ZeroTime == U32(0, 0)

\* The Button of a specification that is about the engine alone.
IdleButton == [lastReading |-> "HIGH", state |-> "Idle", lastDebounceTime |-> ZeroTime,
               pressedAt |-> ZeroTime, holdFired |-> FALSE]

ButtonUnused == button = IdleButton /\ pin = "HIGH" /\ now = ZeroTime

\* NVS_MAGIC = 0xBADC0FFE, as a uint32_t.
NVS_MAGIC == U32(47836, 4094)

\* The namespace with no key stored: every get returns its default, 0, and
\* getBytesLength("hist") is 0.
EmptyStore == [m |-> ZeroTime, cur |-> 0, hH |-> 0, hS |-> 0, hP |-> 0,
               hist |-> [i \in 0..(-1) |-> 0]]

\* The store of a specification that never sleeps.
StoreUnused == nvs = EmptyStore

\* The host application before setup() has run (main.cpp lines 34-44): the
\* state of a specification that is about the libraries alone.
HostUnused ==
    /\ currentState = "Boot"
    /\ stateEnteredAt = ZeroTime
    /\ led = "Off"
    /\ loopFrame = [at |-> "reset", events |-> <<>>]

\* The static initialisers of insults.cpp (lines 41-66), for a build with n items.
StaticInit(n) ==
    /\ insultCount = n
    /\ deck = [i \in 0..(n - 1) |-> 0]
    /\ deckPosition = 0
    /\ history = [i \in 0..(n - 1) |-> 0]
    /\ historyHead = 0
    /\ historySize = 0
    /\ historyPosition = 0
    /\ currentInsultIndex = 0
    /\ pendingAction = "None"
    /\ operationPhase = "Idle"
    /\ operationIsNewInsult = FALSE
    /\ operationStartedAt = ZeroTime
    /\ pendingInsultIndex = 0

-----------------------------------------------------------------------------
(* Specification SpecHistory: appendToHistory called with any indices *)

InitHistory ==
    /\ \E n \in 1..MaxCount : StaticInit(n)
    /\ ButtonUnused /\ StoreUnused /\ HostUnused
    /\ call = "init" /\ ret = FALSE
    /\ obs = [appended |-> <<>>]

AppendIndex(v) ==
    /\ Len(obs.appended) < HISTORY_CAP + ExtraAppends
    /\ LET h == appendToHistory(Ring, HISTORY_CAP, v)
       IN  /\ history' = h.history
           /\ historyHead' = h.historyHead
           /\ historySize' = h.historySize
           /\ historyPosition' = h.historyPosition
    /\ obs' = [obs EXCEPT !.appended = Append(@, v)]
    /\ call' = "append" /\ ret' = FALSE
    /\ UNCHANGED <<insultCount, deckVars, opVars, nvs, hostVars, buttonVars>>

NextHistory == \E v \in 0..MaxValue : AppendIndex(v)

SpecHistory == InitHistory /\ [][NextHistory]_vars

\* get(i) as a caller sees it
Get(i) == historyGetAtLogical(Ring, HISTORY_CAP, i)

\* The last k elements of a sequence
LastK(s, k) == SubSeq(s, Len(s) - k + 1, Len(s))

\* C1: once more than C items have been appended to a history of capacity C,
\* size == C and get(0..C-1) are the C most recently appended indices, oldest
\* first.
C1_RingKeepsMostRecent ==
    Len(obs.appended) > HISTORY_CAP =>
        /\ historySize = HISTORY_CAP
        /\ \A i \in 0..(HISTORY_CAP - 1) :
              /\ Get(i).ok
              /\ Get(i).value = LastK(obs.appended, HISTORY_CAP)[i + 1]

\* A history of capacity >= 2 that has wrapped, holding distinct values.
C1_Witness ==
    /\ HISTORY_CAP >= 3
    /\ Len(obs.appended) = HISTORY_CAP + 2
    /\ obs.appended[1] # obs.appended[HISTORY_CAP + 1]
    /\ obs.appended[2] # obs.appended[HISTORY_CAP + 2]
    /\ Get(0).value # Get(1).value

-----------------------------------------------------------------------------
(* Specification SpecDeck: initDeck, then drawFromDeck again and again *)

\* How many draws a deck run is followed for (two full cycles of MaxCount items).
MaxDraws == 8

InitDeckSpec ==
    /\ \E n \in 1..MaxCount : StaticInit(n)
    /\ ButtonUnused /\ StoreUnused /\ HostUnused
    /\ call = "static" /\ ret = 0
    /\ obs = [drawn |-> <<>>, cycle |-> <<>>, reshuffles |-> 0]

\* initDeck() called by the host (insultsInit line 437): a freshly reset deck.
CallInitDeck ==
    /\ call = "static"
    /\ \E d \in InitDeck(insultCount) : deck' = d
    /\ deckPosition' = 0
    /\ obs' = [drawn |-> <<>>, cycle |-> <<>>, reshuffles |-> 0]
    /\ call' = "initDeck" /\ ret' = 0
    /\ UNCHANGED <<insultCount, historyVars, opVars, nvs, hostVars, buttonVars>>

\* drawFromDeck(); obs logs the returned index, the shuffle cycle it belongs to
\* and the number of initDeck calls the draws made.
CallDrawFromDeck ==
    /\ call # "static"
    /\ Len(obs.drawn) < MaxDraws
    /\ \E o \in DrawFromDeck(insultCount, deck, deckPosition) :
          /\ deck' = o.deck
          /\ deckPosition' = o.deckPosition
          /\ ret' = o.idx
          /\ LET r == obs.reshuffles + (IF o.reshuffled THEN 1 ELSE 0)
             IN  obs' = [drawn |-> Append(obs.drawn, o.idx),
                         cycle |-> Append(obs.cycle, r),
                         reshuffles |-> r]
    /\ call' = "drawFromDeck"
    /\ UNCHANGED <<insultCount, historyVars, opVars, nvs, hostVars, buttonVars>>

NextDeck == CallInitDeck \/ CallDrawFromDeck

SpecDeck == InitDeckSpec /\ [][NextDeck]_vars

\* The values a sequence holds at positions a..b
Values(s, a, b) == {s[k] : k \in a..b}

\* C6: N consecutive draws after initDeck return each value of 0..N-1 exactly
\* once.
C6_FirstCycleIsPermutation ==
    Len(obs.drawn) >= insultCount =>
        /\ Values(obs.drawn, 1, insultCount) = 0..(insultCount - 1)
        /\ \A i, j \in 1..insultCount : i # j => obs.drawn[i] # obs.drawn[j]

C6_Witness ==
    /\ insultCount = MaxCount
    /\ Len(obs.drawn) = insultCount
    /\ obs.reshuffles = 0
    /\ obs.drawn[1] # 0

\* C7 as claimed: across reshuffles, between two returns of the same index
\* every other index is returned at least once.
C7_Original ==
    insultCount >= 2 =>
        \A i, j \in 1..Len(obs.drawn) :
            (i < j /\ obs.drawn[i] = obs.drawn[j]) =>
                \A v \in (0..(insultCount - 1)) \ {obs.drawn[i]} :
                    \E k \in (i + 1)..(j - 1) : obs.drawn[k] = v

\* C7 as amended: within one shuffle cycle no index is returned twice; two
\* returns of the same index are always separated by a reshuffle.
C7_NoRepeatWithinCycle ==
    insultCount >= 2 =>
        \A i, j \in 1..Len(obs.drawn) :
            (i < j /\ obs.drawn[i] = obs.drawn[j]) => obs.cycle[i] < obs.cycle[j]

\* The same index returned by the last draw of a cycle and the first of the next.
C7_Witness ==
    /\ insultCount >= 2
    /\ Len(obs.drawn) > insultCount
    /\ obs.drawn[insultCount] = obs.drawn[insultCount + 1]
    /\ obs.cycle[insultCount] = 0
    /\ obs.cycle[insultCount + 1] = 1

\* C8: N+1 draws from a freshly reset deck make exactly one reshuffle, made by
\* the (N+1)-th draw, which restarts at position 0; draws N+1..2N return each
\* value of 0..N-1 exactly once.
C8_OneReshuffleThenFreshCycle ==
    LET n == insultCount
        len == Len(obs.drawn)
    IN  /\ len <= n => obs.reshuffles = 0
        /\ (n < len /\ len <= 2 * n) =>
              /\ obs.reshuffles = 1
              /\ obs.cycle[n] = 0
              /\ obs.cycle[n + 1] = 1
              /\ deckPosition = len - n
              /\ obs.drawn[n + 1] = deck[0]
        /\ len >= 2 * n =>
              /\ Values(obs.drawn, n + 1, 2 * n) = 0..(n - 1)
              /\ \A i, j \in (n + 1)..(2 * n) : i # j => obs.drawn[i] # obs.drawn[j]

C8_Witness ==
    /\ insultCount >= 3
    /\ Len(obs.drawn) = 2 * insultCount
    /\ obs.reshuffles = 1
    /\ SubSeq(obs.drawn, 1, insultCount)
          # SubSeq(obs.drawn, insultCount + 1, 2 * insultCount)

-----------------------------------------------------------------------------
(* DebounceGesture: buttonInit, updateButton *)

Levels == {"LOW", "HIGH"}

\* buttonInit at time t with the pin reading raw: the baseline.
buttonInit(raw, t) ==
    [lastReading |-> raw, state |-> "Idle", lastDebounceTime |-> t,
     pressedAt |-> ZeroTime, holdFired |-> FALSE]

\* A raw change that stores the reading but does not restart the window.
RawChangedNoRestart(b, raw, t) == [b EXCEPT !.lastReading = raw]

\* Lines 36-41: the raw reading changed, restart the debounce window.
RawChanged(b, raw, t) == [b EXCEPT !.lastDebounceTime = t, !.lastReading = raw]

\* Line 43: still inside the debounce window.
Debouncing(b, t) == U32Less(U32Sub(t, b.lastDebounceTime), DEBOUNCE_TIME_MS)

\* Lines 53-58: Idle -> Pressed.
PressDetected(b, t) ==
    [b EXCEPT !.state = "Pressed", !.pressedAt = t, !.holdFired = FALSE]

\* A release that always reports a tap.
ReleaseAlwaysTap(b) == "Tap"

\* Line 63: the event of a release.
ReleaseEvent(b) == IF b.holdFired THEN "HoldEnd" ELSE "Tap"

\* A hold check that measures the debounce window instead of the threshold.
HoldDueEarly(b, t) ==
    /\ b.state = "Pressed" /\ ~b.holdFired
    /\ ~U32Less(U32Sub(t, b.pressedAt), DEBOUNCE_TIME_MS)

\* A hold check that ignores holdFired.
HoldDueAgain(b, t) ==
    /\ b.state = "Pressed"
    /\ ~U32Less(U32Sub(t, b.pressedAt), HOLD_THRESHOLD_MS)

\* Lines 67-68: still pressed, hold not fired, threshold reached.
HoldDue(b, t) ==
    /\ b.state = "Pressed" /\ ~b.holdFired
    /\ ~U32Less(U32Sub(t, b.pressedAt), HOLD_THRESHOLD_MS)

\* updateButton(button, now) with digitalRead(pin) = raw: [button, event].
updateButton(b, raw, t) ==
    IF raw # b.lastReading
    THEN [button |-> RawChanged(b, raw, t), event |-> "None"]
    ELSE IF Debouncing(b, t)
    THEN [button |-> b, event |-> "None"]
    ELSE LET pressedNow == (raw = "LOW")
         IN  IF pressedNow /\ b.state = "Idle"
             THEN [button |-> PressDetected(b, t), event |-> "None"]
             ELSE IF ~pressedNow /\ b.state = "Pressed"
             THEN [button |-> [b EXCEPT !.state = "Idle"], event |-> ReleaseEvent(b)]
             ELSE IF HoldDue(b, t)
             THEN [button |-> [b EXCEPT !.holdFired = TRUE], event |-> "HoldStart"]
             ELSE [button |-> b, event |-> "None"]

\* The clock values the device is booted at: 0, and two shortly before the
\* 32-bit counter wraps.
BootTimes == {U32(0, 0), U32(Half - 1, Half - 20), U32(Half - 1, Half - 500)}

EngineUnused == StaticInit(1)

\* What the harness logs of a button run:
\*   ticks         time since boot (not wrapped)
\*   rawChangedAt  ticks at the last change of the raw level (0: boot)
\*   changes       number of raw changes
\*   shortGaps     number of raw changes less than the window after the one before
\*   pressedAt     ticks at the first raw press (-1: none), releasedAt likewise
\*   events        the non-None events returned, in order
\*   releases      number of debounced Pressed -> Idle transitions
\*   steps         number of updateButton calls
ButtonObs0 ==
    [ticks |-> 0, rawChangedAt |-> 0, changes |-> 0, shortGaps |-> 0,
     pressedAt |-> -1, releasedAt |-> -1, events |-> <<>>, releases |-> 0,
     steps |-> 0]

\* One loop() pass for one button, dt after the last: millis() and the pin are
\* read and updateButton runs.
UpdateCall(dt, raw) ==
    LET t == U32Add(now, dt)
        r == updateButton(button, raw, t)
    IN  /\ now' = t
        /\ pin' = raw
        /\ button' = r.button
        /\ ret' = r.event
        /\ call' = "updateButton"
        /\ UNCHANGED <<engineVars, nvs, hostVars>>

\* The log after that pass.
ObsAfter(dt, raw) ==
    LET r == updateButton(button, raw, U32Add(now, dt))
        ticks == obs.ticks + dt
        changed == raw # pin
    IN  [ticks |-> ticks,
         rawChangedAt |-> IF changed THEN ticks ELSE obs.rawChangedAt,
         changes |-> obs.changes + (IF changed THEN 1 ELSE 0),
         shortGaps |-> obs.shortGaps +
             (IF changed /\ ticks - obs.rawChangedAt < DEBOUNCE_TIME_MS
              THEN 1 ELSE 0),
         pressedAt |-> IF changed /\ raw = "LOW" /\ obs.pressedAt < 0
                       THEN ticks ELSE obs.pressedAt,
         releasedAt |-> IF changed /\ raw = "HIGH" /\ obs.releasedAt < 0
                        THEN ticks ELSE obs.releasedAt,
         events |-> IF r.event = "None" THEN obs.events
                    ELSE Append(obs.events, r.event),
         releases |-> obs.releases +
             (IF button.state = "Pressed" /\ r.button.state = "Idle"
              THEN 1 ELSE 0),
         steps |-> obs.steps + 1]

InitButton(boots, levels) ==
    /\ EngineUnused /\ StoreUnused /\ HostUnused
    /\ \E t0 \in boots, raw \in levels :
          /\ now = t0
          /\ pin = raw
          /\ button = buttonInit(raw, t0)
    /\ call = "buttonInit" /\ ret = "None"
    /\ obs = ButtonObs0

-----------------------------------------------------------------------------
(* Specification SpecBounce: updateButton on every tick, the raw level       *)
(* changing at any tick                                                     *)

\* Raw changes a bouncing run makes at most, and the ticks it is followed for.
MaxChanges == 4
MaxBounceTicks == 65

BounceTick(raw) ==
    /\ obs.ticks < MaxBounceTicks
    /\ raw # pin => obs.changes < MaxChanges
    /\ UpdateCall(1, raw)
    /\ obs' = [ObsAfter(1, raw) EXCEPT !.pressedAt = -1, !.releasedAt = -1]

NextBounce == \E raw \in Levels : BounceTick(raw)

SpecBounce == InitButton(BootTimes, Levels) /\ [][NextBounce]_vars

\* C2: with updateButton called on every tick, no Tap, HoldStart or HoldEnd is
\* returned less than the debounce window after the last change of the raw
\* level: while the level bounces, and until 30 time-units after the last
\* bounce, every update returns None.
C2_NoEventWithinWindow ==
    (call = "updateButton" /\ obs.ticks - obs.rawChangedAt < DEBOUNCE_TIME_MS)
        => ret = "None"

\* A press that bounced twice, settled, was released and reported a Tap
\* exactly one window after the last change.
C2_Witness ==
    /\ ret = "Tap"
    /\ obs.changes >= 4
    /\ obs.shortGaps >= 2
    /\ obs.ticks - obs.rawChangedAt = DEBOUNCE_TIME_MS

-----------------------------------------------------------------------------
(* Specification SpecPress: updateButton on every tick, one bounce-free     *)
(* press and release of a button that starts released and settled           *)

\* The press comes at most MaxPressAt ticks after the button has settled, lasts
\* at most MaxHold ticks, and the run is followed SettleTicks ticks beyond the
\* debounce window after the release.
MaxPressAt == 2
MaxHold == 835
SettleTicks == 5

PressTick(raw) ==
    /\ CASE obs.changes = 0 ->
              IF raw = "LOW" THEN obs.ticks >= DEBOUNCE_TIME_MS
              ELSE obs.ticks < DEBOUNCE_TIME_MS + MaxPressAt
         [] obs.changes = 1 ->
              raw = "LOW" => obs.ticks + 1 - obs.pressedAt < MaxHold
         [] OTHER ->
              /\ raw = "HIGH"
              /\ obs.ticks - obs.releasedAt < DEBOUNCE_TIME_MS + SettleTicks
    /\ UpdateCall(1, raw)
    /\ obs' = ObsAfter(1, raw)

NextPress == \E raw \in Levels : PressTick(raw)

SpecPress == InitButton(BootTimes, {"HIGH"}) /\ [][NextPress]_vars

\* The press is over: d is its length, Settled says the window after it is over.
Released == obs.changes = 2
PressLength == obs.releasedAt - obs.pressedAt
Settled == obs.ticks - obs.releasedAt >= DEBOUNCE_TIME_MS

\* C3 as claimed: a clean press of 0 < d < 800 gives exactly one Tap and no
\* HoldStart or HoldEnd.
C3_Original ==
    (Released /\ Settled /\ 0 < PressLength /\ PressLength < HOLD_THRESHOLD_MS)
        => obs.events = <<"Tap">>

\* C3 as amended: a clean press longer than the debounce window and shorter
\* than the hold threshold (30 < d < 800) gives exactly one Tap, returned when
\* the window after the release is over, and no HoldStart or HoldEnd; the
\* press emits nothing before that.
C3_TapForDebouncedShortPress ==
    (Released /\ DEBOUNCE_TIME_MS < PressLength /\ PressLength < HOLD_THRESHOLD_MS)
        => obs.events = (IF Settled THEN <<"Tap">> ELSE <<>>)

C3_Witness ==
    /\ Released /\ Settled
    /\ PressLength = HOLD_THRESHOLD_MS - 1
    /\ obs.events = <<"Tap">>
    /\ ret = "Tap"

\* C4 as claimed: a clean press held d >= 800 gives exactly one HoldStart, then
\* after the release exactly one HoldEnd, and never a Tap.
C4_Original ==
    (Released /\ Settled /\ PressLength >= HOLD_THRESHOLD_MS)
        => obs.events = <<"HoldStart", "HoldEnd">>

\* C4 as amended: a clean press held longer than the debounce window plus the
\* hold threshold (d > 830) gives exactly one HoldStart, returned 830 ticks
\* into the press, then after the release exactly one HoldEnd, and never a Tap.
C4_HoldForDebouncedLongPress ==
    /\ (obs.changes = 1 /\ obs.ticks - obs.pressedAt >= DEBOUNCE_TIME_MS + HOLD_THRESHOLD_MS)
          => obs.events = <<"HoldStart">>
    /\ (obs.changes = 1 /\ obs.ticks - obs.pressedAt < DEBOUNCE_TIME_MS + HOLD_THRESHOLD_MS)
          => obs.events = <<>>
    /\ (Released /\ PressLength > DEBOUNCE_TIME_MS + HOLD_THRESHOLD_MS)
          => obs.events = (IF Settled THEN <<"HoldStart", "HoldEnd">>
                           ELSE <<"HoldStart">>)

C4_Witness ==
    /\ Released /\ Settled
    /\ PressLength = DEBOUNCE_TIME_MS + HOLD_THRESHOLD_MS + 1
    /\ obs.events = <<"HoldStart", "HoldEnd">>
    /\ ret = "HoldEnd"

-----------------------------------------------------------------------------
(* Specification SpecButtonAny: updateButton called at any times, the raw   *)
(* level anything at each call                                              *)

\* The updateButton calls a run makes at most.
MaxSteps == 8

\* Time between two calls: one tick, the debounce window, the hold threshold.
Gaps == {1, DEBOUNCE_TIME_MS, HOLD_THRESHOLD_MS}

AnyUpdate(dt, raw) ==
    /\ obs.steps < MaxSteps
    /\ UpdateCall(dt, raw)
    /\ obs' = [ObsAfter(dt, raw) EXCEPT !.pressedAt = -1, !.releasedAt = -1,
                                        !.shortGaps = 0, !.changes = 0,
                                        !.rawChangedAt = 0]

NextButtonAny == \E dt \in Gaps, raw \in Levels : AnyUpdate(dt, raw)

SpecButtonAny == InitButton(BootTimes, Levels) /\ [][NextButtonAny]_vars

\* How often event e is in the log
Count(e) == Cardinality({k \in 1..Len(obs.events) : obs.events[k] = e})

\* C5: the non-None events of a button are a sequence of [Tap] and
\* [HoldStart, HoldEnd] groups, one group per debounced press-release cycle:
\* a HoldEnd directly follows the HoldStart of its press, a HoldStart is
\* followed by nothing but its HoldEnd, a Tap never follows a HoldStart, and a
\* HoldStart without its HoldEnd is the hold of the press still down.
C5_TapOrHoldPerCycle ==
    /\ \A k \in 1..Len(obs.events) :
          /\ obs.events[k] = "HoldEnd" => (k > 1 /\ obs.events[k - 1] = "HoldStart")
          /\ obs.events[k] = "HoldStart" =>
                (k = Len(obs.events) \/ obs.events[k + 1] = "HoldEnd")
    /\ Count("Tap") + Count("HoldEnd") = obs.releases
    /\ Count("HoldStart") # Count("HoldEnd") =>
          (button.state = "Pressed" /\ button.holdFired)

\* A hold cycle followed by a tap cycle.
C5_Witness ==
    /\ obs.events = <<"HoldStart", "HoldEnd", "Tap">>
    /\ obs.releases = 2

-----------------------------------------------------------------------------
(* SelectionOperation: beginWorkFor, insultsInit, insultsStartOperation,    *)
(* insultsPoll.  Each takes the module state as a record and gives the set  *)
(* of its outcomes [s, ret], one per outcome of the random source.          *)

\* The module state of insults.cpp as one record.
Engine ==
    [deck |-> deck, deckPosition |-> deckPosition,
     history |-> history, historyHead |-> historyHead,
     historySize |-> historySize, historyPosition |-> historyPosition,
     currentInsultIndex |-> currentInsultIndex,
     pendingAction |-> pendingAction, operationPhase |-> operationPhase,
     operationIsNewInsult |-> operationIsNewInsult,
     operationStartedAt |-> operationStartedAt,
     pendingInsultIndex |-> pendingInsultIndex]

\* The step's new module state is s.
EngineBecomes(s) ==
    /\ deck' = s.deck
    /\ deckPosition' = s.deckPosition
    /\ history' = s.history
    /\ historyHead' = s.historyHead
    /\ historySize' = s.historySize
    /\ historyPosition' = s.historyPosition
    /\ currentInsultIndex' = s.currentInsultIndex
    /\ pendingAction' = s.pendingAction
    /\ operationPhase' = s.operationPhase
    /\ operationIsNewInsult' = s.operationIsNewInsult
    /\ operationStartedAt' = s.operationStartedAt
    /\ pendingInsultIndex' = s.pendingInsultIndex
    /\ UNCHANGED insultCount

\* A draw that does not mark the insult as new.
BeginDrawNotNew(n, s) ==
    {[s |-> [s EXCEPT !.deck = o.deck, !.deckPosition = o.deckPosition,
                      !.pendingInsultIndex = o.idx,
                      !.operationPhase = "Waiting"],
      ret |-> TRUE] : o \in DrawFromDeck(n, s.deck, s.deckPosition)}

\* A draw that makes the drawn insult the current one at once.
BeginDrawShowsAtOnce(n, s) ==
    {[s |-> [s EXCEPT !.deck = o.deck, !.deckPosition = o.deckPosition,
                      !.pendingInsultIndex = o.idx,
                      !.currentInsultIndex = o.idx,
                      !.operationIsNewInsult = TRUE,
                      !.operationPhase = "Waiting"],
      ret |-> TRUE] : o \in DrawFromDeck(n, s.deck, s.deckPosition)}

\* Lines 367-370, 396-399, 414-417: draw a new insult and wait.
BeginDraw(n, s) ==
    {[s |-> [s EXCEPT !.deck = o.deck, !.deckPosition = o.deckPosition,
                      !.pendingInsultIndex = o.idx,
                      !.operationIsNewInsult = TRUE,
                      !.operationPhase = "Waiting"],
      ret |-> TRUE] : o \in DrawFromDeck(n, s.deck, s.deckPosition)}

\* A navigation that marks the entry it reads as new content.
BeginAtCursorAsNew(n, s) ==
    LET g == historyGetAtLogical(s, n, s.historyPosition)
    IN  IF ~g.ok THEN {[s |-> s, ret |-> FALSE]}
        ELSE {[s |-> [s EXCEPT !.pendingInsultIndex = g.value,
                               !.operationIsNewInsult = TRUE,
                               !.operationPhase = "Waiting"],
               ret |-> TRUE]}

\* Lines 383-390, 404-410: the cursor has moved; read the entry it is at.
BeginAtCursor(n, s) ==
    LET g == historyGetAtLogical(s, n, s.historyPosition)
    IN  IF ~g.ok THEN {[s |-> s, ret |-> FALSE]}
        ELSE {[s |-> [s EXCEPT !.pendingInsultIndex = g.value,
                               !.operationPhase = "Waiting"],
               ret |-> TRUE]}

\* An oldest-entry test that never stops the cursor.
AtOldestNever(s) == FALSE

\* Line 378: the cursor is already at the oldest entry.
AtOldest(s) == s.historyPosition = 0

beginWorkFor(n, s, action) ==
    LET s0 == [s EXCEPT !.operationIsNewInsult = FALSE]
    IN  CASE action = "Random" -> BeginDraw(n, s0)
          [] action = "Prev" ->
                IF s0.historySize = 0 THEN {[s |-> s0, ret |-> FALSE]}
                ELSE IF AtOldest(s0) THEN {[s |-> s0, ret |-> FALSE]}
                ELSE BeginAtCursor(n, [s0 EXCEPT !.historyPosition = @ - 1])
          [] action = "Next" ->
                IF s0.historySize = 0 THEN BeginDraw(n, s0)
                ELSE IF s0.historyPosition < s0.historySize - 1
                THEN BeginAtCursor(n, [s0 EXCEPT !.historyPosition = @ + 1])
                ELSE BeginDraw(n, s0)
          [] OTHER -> {[s |-> s0, ret |-> FALSE]}

\* insultsInit(printInsultOnBoot, false): the cold boot path, lines 436-456.
insultsInitCold(n, s, printInsultOnBoot) ==
    UNION {
      LET s1 == [s EXCEPT !.deck = d, !.deckPosition = 0,
                          !.historyHead = 0, !.historySize = 0,
                          !.historyPosition = 0]
      IN  IF printInsultOnBoot /\ n > 0
          THEN {[s |-> appendToHistory(
                          [s1 EXCEPT !.deck = o.deck,
                                     !.deckPosition = o.deckPosition,
                                     !.currentInsultIndex = o.idx],
                          n, o.idx),
                 ret |-> TRUE] : o \in DrawFromDeck(n, s1.deck, s1.deckPosition)}
          ELSE {[s |-> s1, ret |-> FALSE]}
      : d \in InitDeck(n)}

\* Lines 494-496: the rejected start resets the operation state.
RejectStart(s) ==
    [s EXCEPT !.pendingAction = "None", !.operationPhase = "Idle",
              !.operationIsNewInsult = FALSE]

insultsStartOperation(n, s, action, t) ==
    LET s1 == [s EXCEPT !.pendingAction = action, !.operationPhase = "Idle",
                        !.operationIsNewInsult = FALSE,
                        !.operationStartedAt = t]
    IN  {IF r.ret THEN r
         ELSE [s |-> RejectStart(r.s), ret |-> FALSE] :
            r \in beginWorkFor(n, s1, action)}

\* sizeof(array) / sizeof(uint16_t) of a stored or a RAM array.
ArrayLen(a) == Cardinality(DOMAIN a)

\* A cursor test that lets the cursor be one past the newest entry.
PosValidLoose(savedPos, savedSize) == savedPos <= savedSize

\* Line 318: posValid.
PosValid(savedPos, savedSize) ==
    savedPos <= (IF savedSize = 0 THEN 0 ELSE savedSize - 1)

\* A restore that skips historyPosition = savedPos.
ApplySavedNoCursor(s, store) ==
    [s EXCEPT !.historyHead = store.hH, !.historySize = store.hS,
              !.currentInsultIndex = store.cur]

\* Lines 324-328: the saved metadata is applied.
ApplySaved(s, store) ==
    [s EXCEPT !.historyHead = store.hH, !.historySize = store.hS,
              !.historyPosition = store.hP, !.currentInsultIndex = store.cur]

\* loadInsultsStateFromNvs on the keys in store; opened is what prefs.begin
\* returned.  getBytes returns the stored length, so the test at line 306
\* never fails once the lengths have been found equal at line 298.
\* A head test that lets the head be one past the last slot.
HeadValidLoose(savedHead, cap) == savedHead <= cap

\* Line 317: headValid.
HeadValid(savedHead, cap) == savedHead < cap

loadInsultsStateFromNvs(n, s, store, opened) ==
    IF ~opened THEN [s |-> s, ret |-> FALSE]
    ELSE IF store.m # NVS_MAGIC THEN [s |-> s, ret |-> FALSE]
    ELSE IF ArrayLen(store.hist) # ArrayLen(s.history) THEN [s |-> s, ret |-> FALSE]
    ELSE LET s1 == [s EXCEPT !.history = store.hist]
             curValid == store.cur < n
             sizeValid == store.hS <= n
             headValid == HeadValid(store.hH, n)
             posValid == PosValid(store.hP, store.hS)
         IN  IF n = 0 THEN [s |-> s1, ret |-> FALSE]
             ELSE IF ~curValid \/ ~sizeValid \/ ~headValid \/ ~posValid
             THEN [s |-> s1, ret |-> FALSE]
             ELSE [s |-> ApplySaved(s1, store), ret |-> TRUE]

\* insultsPersistForSleep: the keys of the namespace afterwards.
insultsPersistForSleep(s, store, opened) ==
    IF ~opened THEN store
    ELSE [m |-> NVS_MAGIC, cur |-> s.currentInsultIndex,
          hH |-> s.historyHead % Half, hS |-> s.historySize % Half,
          hP |-> s.historyPosition % Half, hist |-> s.history]

\* A fallback that seeds on top of the history that is there.
WakeFallbackNoReset(n, s) ==
    IF n = 0 THEN {[s |-> s, ret |-> FALSE]}
    ELSE {[s |-> appendToHistory(
                    [s EXCEPT !.deck = o.deck, !.deckPosition = o.deckPosition,
                              !.currentInsultIndex = o.idx],
                    n, o.idx),
           ret |-> TRUE] : o \in DrawFromDeck(n, s.deck, s.deckPosition)}

\* Lines 465-478: no saved state; draw one and seed the history.
WakeFallback(n, s) ==
    IF n = 0 THEN {[s |-> s, ret |-> FALSE]}
    ELSE {[s |-> appendToHistory(
                    [s EXCEPT !.deck = o.deck, !.deckPosition = o.deckPosition,
                              !.currentInsultIndex = o.idx,
                              !.historyHead = 0, !.historySize = 0,
                              !.historyPosition = 0],
                    n, o.idx),
           ret |-> TRUE] : o \in DrawFromDeck(n, s.deck, s.deckPosition)}

\* insultsInit(printInsultOnBoot, true): the wake path, lines 436-437 and
\* 458-478.  loaded is what loadInsultsStateFromNvs returned and left.
insultsInitWake(n, s, store, printInsultOnBoot, opened) ==
    UNION {
      LET l == loadInsultsStateFromNvs(
                   n, [s EXCEPT !.deck = d, !.deckPosition = 0], store, opened)
      IN  IF l.ret THEN {[s |-> l.s, ret |-> TRUE, loaded |-> l]}
          ELSE {[s |-> f.s, ret |-> f.ret, loaded |-> l] : f \in WakeFallback(n, l.s)}
      : d \in InitDeck(n)}

\* A latency test that is one unit late.
WorkPendingLate(s, t) ==
    U32Less(U32Sub(t, s.operationStartedAt), MOCK_WORK_MS + 1)

\* Line 514: the simulated work is not over yet.
WorkPending(s, t) == U32Less(U32Sub(t, s.operationStartedAt), MOCK_WORK_MS)

\* A completion that leaves the operation in flight.
FinishKeepsWaiting(s) == [s EXCEPT !.operationIsNewInsult = FALSE]

\* Lines 536-538: the operation state is reset.
FinishOperation(s) ==
    [s EXCEPT !.pendingAction = "None", !.operationPhase = "Idle",
              !.operationIsNewInsult = FALSE]

\* A completion that appends whatever the action was.
CompletionAppendsAlways(s, completedAction) == TRUE

\* A completion that appends for Random alone.
CompletionAppendsRandomOnly(s, completedAction) == completedAction = "Random"

\* Lines 525-531: the completed action appends to the history.
CompletionAppends(s, completedAction) ==
    IF completedAction = "Random" THEN TRUE
    ELSE IF completedAction = "Next" THEN s.operationIsNewInsult
    ELSE FALSE

insultsPoll(n, s, t) ==
    IF s.operationPhase # "Waiting" THEN [s |-> s, ret |-> FALSE]
    ELSE IF WorkPending(s, t) THEN [s |-> s, ret |-> FALSE]
    ELSE LET completedAction == s.pendingAction
             s1 == [s EXCEPT !.currentInsultIndex = s.pendingInsultIndex]
             s2 == IF CompletionAppends(s1, completedAction)
                   THEN appendToHistory(s1, n, s1.currentInsultIndex)
                   ELSE s1
         IN  [s |-> FinishOperation(s2), ret |-> TRUE]

-----------------------------------------------------------------------------
(* Specification SpecEngine: a cold boot, then operations started while no  *)
(* operation is in flight and polled at any later times                     *)

Actions == {"Random", "Next", "Prev"}

\* The clock values operations are started at: 0, and 800 before the 32-bit
\* counter wraps.
StartTimes == {U32(0, 0), U32(Half - 1, Half - MOCK_WORK_MS)}

\* The times after the start of the operation at which insultsPoll is called.
PollTimes == {0, 1, MOCK_WORK_MS - 1, MOCK_WORK_MS, MOCK_WORK_MS + 1}

\* What the harness logs of an engine run:
\*   open     an operation was accepted and no poll has returned true since
\*   wasOpen  open, before the last call
\*   elapsed  time from the last start to the last poll (not wrapped)
\*   trues    polls that returned true since the last accepted start
\*   action   the action of the last start
\*   onEmpty  the history was empty at the last start
\*   drawn    the deck entry the last start drew (-1: it drew none)
\*   nth      the last start was the nth Prev in a row since the cursor was at
\*            the newest entry (0: it was no such Prev)
\*   runSize  the history size when that row of Prev starts began
\*   runLive  the last start was such a Prev and was accepted
\*   atNewest the cursor was at the newest entry of a history that was not
\*            empty at the last start
EngineObs0 ==
    [open |-> FALSE, wasOpen |-> FALSE, elapsed |-> 0, trues |-> 0,
     action |-> "None", onEmpty |-> FALSE, drawn |-> -1,
     nth |-> 0, runSize |-> 0, runLive |-> FALSE, atNewest |-> FALSE]

\* The row of Prev starts a start of the given action with the given result
\* belongs to: it goes on from an accepted Prev of the row, and begins when
\* the cursor is at the newest entry of a history that is not empty.
PrevRun(action, accepted) ==
    IF action # "Prev" THEN [nth |-> 0, runSize |-> 0, runLive |-> FALSE]
    ELSE IF obs.runLive
    THEN [nth |-> obs.nth + 1, runSize |-> obs.runSize, runLive |-> accepted]
    ELSE IF historySize >= 1 /\ historyPosition = historySize - 1
    THEN [nth |-> 1, runSize |-> historySize, runLive |-> accepted]
    ELSE [nth |-> 0, runSize |-> 0, runLive |-> FALSE]

\* The builds the engine runs are checked for: the shipped table, and the
\* tables of fewer entries.
InitEngine ==
    /\ \E n \in 1..ShippedInsults : StaticInit(n)
    /\ ButtonUnused /\ StoreUnused /\ HostUnused
    /\ call = "static" /\ ret = FALSE
    /\ obs = EngineObs0

CallInsultsInit(printInsultOnBoot) ==
    /\ call = "static"
    /\ \E r \in insultsInitCold(insultCount, Engine, printInsultOnBoot) :
          /\ EngineBecomes(r.s)
          /\ ret' = r.ret
    /\ call' = "insultsInit"
    /\ obs' = obs
    /\ UNCHANGED <<nvs, hostVars, buttonVars>>

CallStartOperation(action, t) ==
    /\ call # "static"
    /\ operationPhase = "Idle"
    /\ \E r \in insultsStartOperation(insultCount, Engine, action, t) :
          /\ EngineBecomes(r.s)
          /\ ret' = r.ret
          /\ obs' = [open |-> r.ret, wasOpen |-> obs.open, elapsed |-> 0,
                     trues |-> IF r.ret THEN 0 ELSE obs.trues,
                     action |-> action,
                     onEmpty |-> historySize = 0,
                     drawn |-> IF r.s.deckPosition # deckPosition \/ r.s.deck # deck
                               THEN r.s.deck[r.s.deckPosition - 1] ELSE -1,
                     nth |-> PrevRun(action, r.ret).nth,
                     runSize |-> PrevRun(action, r.ret).runSize,
                     runLive |-> PrevRun(action, r.ret).runLive,
                     atNewest |-> historySize >= 1
                                    /\ historyPosition = historySize - 1]
    /\ call' = "insultsStartOperation"
    /\ UNCHANGED <<nvs, hostVars, buttonVars>>

CallPoll(e) ==
    /\ call # "static"
    /\ e >= obs.elapsed
    /\ LET r == insultsPoll(insultCount, Engine, U32Add(operationStartedAt, e))
       IN  /\ EngineBecomes(r.s)
           /\ ret' = r.ret
           /\ obs' = [obs EXCEPT !.open = obs.open /\ ~r.ret,
                                 !.wasOpen = obs.open,
                                 !.elapsed = e,
                                 !.trues = obs.trues + (IF r.ret THEN 1 ELSE 0)]
    /\ call' = "insultsPoll"
    /\ UNCHANGED <<nvs, hostVars, buttonVars>>

NextEngine ==
    \/ \E p \in BOOLEAN : CallInsultsInit(p)
    \/ \E a \in Actions, t \in StartTimes : CallStartOperation(a, t)
    \/ \E e \in PollTimes : CallPoll(e)

SpecEngine == InitEngine /\ [][NextEngine]_vars

\* C9: after insultsStartOperation(Random, t0) is accepted on an empty history,
\* a poll returns false while now - t0 < 800 and true at the first poll with
\* now - t0 >= 800; then CurrentIndex is the index drawn at begin and the
\* history holds one entry.
C9_RandomCompletesAtLatency ==
    (call = "insultsPoll" /\ obs.wasOpen /\ obs.action = "Random" /\ obs.onEmpty)
        => /\ ret = (obs.elapsed >= MOCK_WORK_MS)
           /\ ret => /\ currentInsultIndex = obs.drawn
                     /\ historySize = 1
                     /\ Get(0).value = obs.drawn

\* The poll at 800 returned true, at a wrapped clock, with a drawn index that
\* is not the zero of the static initialisers.
C9_Witness ==
    /\ call = "insultsPoll" /\ obs.wasOpen /\ obs.action = "Random" /\ obs.onEmpty
    /\ obs.elapsed = MOCK_WORK_MS
    /\ ret
    /\ operationStartedAt # ZeroTime
    /\ currentInsultIndex > 0

\* C10: insultsPoll returns true exactly once per accepted operation: the
\* first poll at or after the latency returns true, and from then until the
\* next accepted start, as whenever the phase is Idle, a poll returns false
\* and changes no module state.
C10_PollTrueExactlyOnce ==
    [][call' = "insultsPoll" =>
          /\ (~obs.open \/ operationPhase = "Idle")
                => (ret' = FALSE /\ UNCHANGED engineVars)
          /\ (obs.open /\ obs'.elapsed >= MOCK_WORK_MS) => ret' = TRUE
          /\ obs'.trues <= 1]_vars

\* A poll after the completing poll of an operation, later than the latency.
C10_Witness ==
    /\ call = "insultsPoll"
    /\ ~obs.wasOpen
    /\ obs.trues = 1
    /\ obs.elapsed > MOCK_WORK_MS
    /\ ret = FALSE
    /\ historySize >= 2

\* C11: from the cursor at the newest entry of a history of size S >= 1, of
\* the Prev operations started back to back exactly the first S-1 are
\* accepted, each moving the cursor back by one, and the S-th is rejected;
\* the cursor is never below 0.
C11_PrevStopsAtOldest ==
    /\ historyPosition >= 0
    /\ (call = "insultsStartOperation" /\ obs.nth >= 1)
          => /\ ret = (obs.nth <= obs.runSize - 1)
             /\ obs.nth <= obs.runSize
             /\ historySize = obs.runSize
             /\ historyPosition = obs.runSize - 1 - (IF ret THEN obs.nth ELSE obs.nth - 1)

\* The fourth Prev in a row on a history of four entries was rejected, after
\* three were accepted.
C11_Witness ==
    /\ call = "insultsStartOperation" /\ obs.nth = 4 /\ obs.runSize = 4
    /\ ret = FALSE
    /\ historyPosition = 0

\* A step that is a rejected insultsStartOperation(Prev, t).
RejectedPrevStep ==
    call' = "insultsStartOperation" /\ obs'.action = "Prev" /\ ret' = FALSE

\* C12: a rejected insultsStartOperation(Prev, t) returns false and leaves the
\* whole engine state as it was before the call: CurrentIndex, history, head,
\* size, cursor, deck, deck position, phase, pending action, pending index,
\* isNewContent flag and start timestamp.
C12_Original ==
    [][RejectedPrevStep => UNCHANGED engineVars]_vars

\* What a rejected Prev does leave as it was: everything but
\* operationStartedAt, which line 491 has set to the time of the call.
RejectedPrevKeepsAllButStartTime ==
    [][RejectedPrevStep =>
          /\ UNCHANGED <<insultCount, deckVars, historyVars, currentInsultIndex,
                         pendingAction, operationPhase, operationIsNewInsult,
                         pendingInsultIndex>>
          /\ \E t \in StartTimes : operationStartedAt' = t]_vars

\* get(i) after the step.
GetNext(i) ==
    historyGetAtLogical([history |-> history', historyHead |-> historyHead',
                         historySize |-> historySize',
                         historyPosition |-> historyPosition'], HISTORY_CAP, i)

\* The last start was a Next with the cursor at the newest entry: in obs, and
\* in obs after the step.
NextAtNewest == obs.action = "Next" /\ obs.atNewest
NextAtNewestAfter == obs'.action = "Next" /\ obs'.atNewest

\* C13: a Next begun with cursor == size-1 (size >= 1) is accepted, sets
\* isNewContent and draws from the deck; when its poll completes, the size has
\* grown by one if it was below the capacity, and otherwise stays at the
\* capacity with the oldest entry dropped (the previous get(i) is now
\* get(i-1)); the drawn index is the newest entry and CurrentIndex.
C13_NextAtNewestDrawsAndAppends ==
    [][/\ (call' = "insultsStartOperation" /\ NextAtNewestAfter)
            => /\ ret' = TRUE
               /\ operationPhase' = "Waiting"
               /\ \E o \in DrawFromDeck(insultCount, deck, deckPosition) :
                     /\ deck' = o.deck
                     /\ deckPosition' = o.deckPosition
                     /\ pendingInsultIndex' = o.idx
       /\ (obs'.open /\ NextAtNewestAfter)
            => /\ operationIsNewInsult' = TRUE
               /\ pendingInsultIndex' = deck'[deckPosition' - 1]
       /\ (call' = "insultsPoll" /\ ret' = TRUE /\ NextAtNewest)
            => /\ IF historySize < HISTORY_CAP
                  THEN /\ historySize' = historySize + 1
                       /\ \A i \in 0..(historySize - 1) : GetNext(i) = Get(i)
                  ELSE /\ historySize' = historySize
                       /\ \A i \in 1..(historySize - 1) : GetNext(i - 1) = Get(i)
               /\ GetNext(historySize' - 1) = [ok |-> TRUE, value |-> pendingInsultIndex]
               /\ historyPosition' = historySize' - 1
               /\ currentInsultIndex' = pendingInsultIndex]_vars

\* A Next begun at the newest entry of a full history of four has completed:
\* the head has gone round the ring and one past.
C13_Witness ==
    /\ call = "insultsPoll" /\ ret = TRUE /\ NextAtNewest
    /\ insultCount = 4 /\ historySize = 4 /\ historyHead = 1
    /\ Get(0).value # Get(3).value

\* C14: the completing poll appends to the history (CurrentIndex written at
\* the head, head advanced, newest entry == CurrentIndex) if and only if the
\* completed action was Random, or was Next with isNewContent; a completed
\* Prev and a completed Next without new content leave history contents, head
\* and size unchanged.
C14_AppendOnlyForNewContent ==
    [][(call' = "insultsPoll" /\ ret' = TRUE) =>
          IF pendingAction = "Random"
                \/ (pendingAction = "Next" /\ operationIsNewInsult)
          THEN /\ history' = [history EXCEPT ![historyHead] = currentInsultIndex']
               /\ historyHead' = wrapIndex(historyHead + 1, HISTORY_CAP)
               /\ historySize' = IF historySize < HISTORY_CAP
                                 THEN historySize + 1 ELSE historySize
               /\ GetNext(historySize' - 1) = [ok |-> TRUE, value |-> currentInsultIndex']
          ELSE /\ pendingAction \in {"Prev", "Next"}
               /\ UNCHANGED <<history, historyHead, historySize>>]_vars

\* The module state after the step, as one record.
EngineAfter ==
    [deck |-> deck', deckPosition |-> deckPosition',
     history |-> history', historyHead |-> historyHead',
     historySize |-> historySize', historyPosition |-> historyPosition',
     currentInsultIndex |-> currentInsultIndex',
     pendingAction |-> pendingAction', operationPhase |-> operationPhase',
     operationIsNewInsult |-> operationIsNewInsult',
     operationStartedAt |-> operationStartedAt',
     pendingInsultIndex |-> pendingInsultIndex']

\* What C26 compares of two module states.
Outcome(s) ==
    [currentInsultIndex |-> s.currentInsultIndex,
     deck |-> s.deck, deckPosition |-> s.deckPosition,
     history |-> s.history, historyHead |-> s.historyHead,
     historySize |-> s.historySize, historyPosition |-> s.historyPosition]

\* The outcomes of starting the action in the state of the step's start, at
\* the time the step started its operation, and polling it to completion.
CompletedFrom(action) ==
    {Outcome(insultsPoll(insultCount, r.s,
                         U32Add(r.s.operationStartedAt, MOCK_WORK_MS)).s) :
        r \in {q \in insultsStartOperation(insultCount, Engine, action,
                                            operationStartedAt') : q.ret}}

\* C26: with an empty history Next is Random.  A Next started on an empty
\* history is accepted and leaves, but for the action it records, a state
\* that a Random started in the same state leaves, and polled to completion
\* both leave the same CurrentIndex, deck and deck position, history
\* contents, head, size (1) and cursor (0); and so the other way round.
C26_NextOnEmptyIsRandom ==
    [][/\ (call' = "insultsStartOperation" /\ obs'.onEmpty
             /\ obs'.action \in {"Next", "Random"})
            => /\ ret' = TRUE
               /\ \E r \in insultsStartOperation(insultCount, Engine, "Random",
                                                  operationStartedAt') :
                     EngineAfter = [r.s EXCEPT !.pendingAction = obs'.action]
               /\ \E r \in insultsStartOperation(insultCount, Engine, "Next",
                                                  operationStartedAt') :
                     EngineAfter = [r.s EXCEPT !.pendingAction = obs'.action]
               /\ CompletedFrom("Next") = CompletedFrom("Random")
               /\ CompletedFrom("Next") # {}
               /\ \A o \in CompletedFrom("Next") :
                     o.historySize = 1 /\ o.historyPosition = 0
       /\ (call' = "insultsPoll" /\ ret' = TRUE /\ obs.onEmpty
             /\ obs.action \in {"Next", "Random"})
            => /\ Outcome(EngineAfter)
                    = Outcome(insultsPoll(insultCount,
                                [Engine EXCEPT !.pendingAction = "Random"],
                                U32Add(operationStartedAt, MOCK_WORK_MS)).s)
               /\ Outcome(EngineAfter)
                    = Outcome(insultsPoll(insultCount,
                                [Engine EXCEPT !.pendingAction = "Next"],
                                U32Add(operationStartedAt, MOCK_WORK_MS)).s)
               /\ historySize' = 1 /\ historyPosition' = 0
               /\ GetNext(0) = [ok |-> TRUE, value |-> currentInsultIndex']
               /\ currentInsultIndex' = pendingInsultIndex]_vars

\* A Next started on the empty history of a build of four has completed.
C26_Witness ==
    /\ call = "insultsPoll" /\ ret = TRUE
    /\ obs.onEmpty /\ obs.action = "Next"
    /\ insultCount = 4
    /\ historySize = 1 /\ historyPosition = 0 /\ historyHead = 1
    /\ Get(0).value = currentInsultIndex

\* The last start was a Next with the cursor below the newest entry of a
\* history that is not empty: in obs, and in obs after the step.
NextInside == obs.action = "Next" /\ ~obs.onEmpty /\ ~obs.atNewest
NextInsideAfter == obs'.action = "Next" /\ ~obs'.onEmpty /\ ~obs'.atNewest

\* C25: a Next begun with size >= 1 and cursor < size-1 is pure navigation.
\* It is accepted, the cursor moves up by one, isNewContent is false, and
\* nothing is drawn: deck and deck position stay as they are.  When its poll
\* completes, CurrentIndex is the entry at the new cursor, and the history
\* contents, head and size (and the cursor and the deck) are unchanged.
C25_NextInsideIsNavigation ==
    [][/\ (call' = "insultsStartOperation" /\ NextInsideAfter)
            => /\ historySize >= 1 /\ historyPosition < historySize - 1
               /\ ret' = TRUE
               /\ operationPhase' = "Waiting"
               /\ historyPosition' = historyPosition + 1
               /\ operationIsNewInsult' = FALSE
               /\ pendingInsultIndex' = Get(historyPosition + 1).value
               /\ UNCHANGED <<deck, deckPosition>>
               /\ UNCHANGED <<history, historyHead, historySize>>
       /\ (call' = "insultsPoll" /\ NextInside /\ obs.open)
            => /\ UNCHANGED <<deck, deckPosition>>
               /\ UNCHANGED <<history, historyHead, historySize, historyPosition>>
               /\ ret' = TRUE
                    => currentInsultIndex' = Get(historyPosition).value]_vars

\* A Next that stepped forward inside a full history of four, whose head
\* has gone round the ring, has completed one below the newest entry.
C25_Witness ==
    /\ call = "insultsPoll" /\ ret = TRUE /\ NextInside
    /\ insultCount = 4 /\ historySize = 4 /\ historyHead = 1
    /\ historyPosition = 2
    /\ currentInsultIndex = Get(2).value
    /\ operationIsNewInsult = FALSE /\ operationPhase = "Idle"

\* A Next that replayed an entry of the history has completed, and the entry
\* it is at is not the newest.
C14_Witness ==
    /\ call = "insultsPoll" /\ ret = TRUE
    /\ obs.action = "Next" /\ ~obs.atNewest /\ ~obs.onEmpty
    /\ historySize = 3 /\ historyPosition = 1
    /\ currentInsultIndex = Get(1).value
    /\ currentInsultIndex # Get(2).value

-----------------------------------------------------------------------------
(* Specification SpecAnyState: builds of any number of items, zero too; an  *)
(* init on either path, then starts in every state, also while an operation *)
(* is in flight, and polls                                                  *)

\* Largest number of items of the builds of this specification.
MaxBuild == 3
\* The values the variables overwritten by an out-of-range write may take.
MaxHavoc == 1

\* What is logged of a run:
\*   outOfRange  initDeck has run its loop with i outside deck[]
\*   action      the action of the last start
\*   inFlight    an operation was in flight at the last start
AnyObs0 == [outOfRange |-> FALSE, action |-> "None", inFlight |-> FALSE]

InitAnyState ==
    /\ \E n \in 0..MaxBuild : StaticInit(n)
    /\ ButtonUnused /\ StoreUnused /\ HostUnused
    /\ call = "static" /\ ret = FALSE
    /\ obs = AnyObs0

\* insultsInit on a build whose initDeck stays inside the deck.
AnyInit(printInsultOnBoot, wokeFromSleep, opened) ==
    /\ call = "static"
    /\ \E r \in (IF wokeFromSleep
                 THEN insultsInitWake(insultCount, Engine, nvs, printInsultOnBoot, opened)
                 ELSE insultsInitCold(insultCount, Engine, printInsultOnBoot)) :
          /\ EngineBecomes(r.s)
          /\ ret' = r.ret
    /\ call' = "insultsInit"
    /\ obs' = obs
    /\ UNCHANGED <<nvs, hostVars, buttonVars>>

\* insultsInit on a build whose initDeck reads and writes deck[i] out of
\* range (lines 82-87): the behaviour is undefined.  Either the access faults
\* and the device resets into the static initialisers, or the writes land in
\* the variables that lie around deck[] and insultsInit returns.
InitUndefined ==
    /\ call = "static"
    /\ ShuffleOutOfRange(insultCount)
    /\ obs' = [obs EXCEPT !.outOfRange = TRUE]
    /\ \/ /\ call' = "static" /\ ret' = FALSE
          /\ UNCHANGED <<engineVars, nvs, hostVars, buttonVars>>
       \/ /\ call' = "insultsInit"
          /\ ret' \in BOOLEAN
          /\ deckPosition' \in 0..MaxHavoc
          /\ historyHead' \in 0..MaxHavoc
          /\ historySize' \in 0..MaxHavoc
          /\ historyPosition' \in 0..MaxHavoc
          /\ currentInsultIndex' \in 0..MaxHavoc
          /\ UNCHANGED <<insultCount, deck, history, pendingAction,
                         operationPhase, operationIsNewInsult,
                         operationStartedAt, pendingInsultIndex, nvs, hostVars, buttonVars>>

AnyStart(action, t) ==
    /\ call # "static"
    /\ \E r \in insultsStartOperation(insultCount, Engine, action, t) :
          /\ EngineBecomes(r.s)
          /\ ret' = r.ret
    /\ obs' = [obs EXCEPT !.action = action,
                          !.inFlight = operationPhase = "Waiting"]
    /\ call' = "insultsStartOperation"
    /\ UNCHANGED <<nvs, hostVars, buttonVars>>

AnyPoll(e) ==
    /\ call # "static"
    /\ LET r == insultsPoll(insultCount, Engine, U32Add(operationStartedAt, e))
       IN  /\ EngineBecomes(r.s)
           /\ ret' = r.ret
    /\ obs' = obs
    /\ call' = "insultsPoll"
    /\ UNCHANGED <<nvs, hostVars, buttonVars>>

NextAnyState ==
    \/ \E p \in BOOLEAN, w \in BOOLEAN, o \in BOOLEAN : AnyInit(p, w, o)
    \/ InitUndefined
    \/ \E a \in Actions, t \in StartTimes : AnyStart(a, t)
    \/ \E e \in {0, MOCK_WORK_MS} : AnyPoll(e)

SpecAnyState == InitAnyState /\ [][NextAnyState]_vars

\* C15: insultsStartOperation(Random, now) is accepted (returns true, the
\* phase becomes Waiting) in every state when at least one item is
\* configured, and is not accepted when no item is configured.
C15_Original ==
    (call = "insultsStartOperation" /\ obs.action = "Random")
        => IF insultCount >= 1 THEN ret = TRUE /\ operationPhase = "Waiting"
           ELSE ret = FALSE

\* The half of C15 the code keeps: with at least one item Random is accepted
\* in every state, in flight or not.
RandomAcceptedWithItems ==
    (call = "insultsStartOperation" /\ obs.action = "Random" /\ insultCount >= 1)
        => ret = TRUE /\ operationPhase = "Waiting" /\ operationIsNewInsult

\* C16: with no item configured no operation reads or writes the deck or the
\* history out of range, the shuffle loop performs no iteration, and every
\* draw returns the sentinel 0.
C16_Original ==
    insultCount = 0
        => /\ ~obs.outOfRange
           /\ (call = "insultsStartOperation" /\ ret = TRUE) => pendingInsultIndex = 0

-----------------------------------------------------------------------------
(* Specification SpecWake: a cold boot, a deep sleep, and a wake that finds *)
(* any keys in the store: valid, corrupted, of another build, or none       *)

\* Largest number of items of the builds of this specification.
MaxWakeCount == 2
\* The entries of a stored history array are 0..MaxHistValue.
MaxHistValue == 1

\* The stored "hist" arrays: of the length of history[], of any other length
\* (one shorter and one longer stand for them), each filled with one value.
StoredHists(n) ==
    {[i \in 0..(k - 1) |-> v] : k \in {n - 1, n, n + 1}, v \in 0..MaxHistValue}

\* The keys a wake may find.  Each number runs over its valid values and the
\* first invalid ones.
Stores(n) ==
    [m : {NVS_MAGIC, ZeroTime}, cur : 0..n, hH : 0..n, hS : 0..(n + 1),
     hP : 0..(n + 1), hist : StoredHists(n)]

\* The part of the module state a restore is about.
Restorable(s) ==
    [cur |-> s.currentInsultIndex, head |-> s.historyHead,
     size |-> s.historySize, pos |-> s.historyPosition, history |-> s.history]

\* What is logged of a run:
\*   woke      the last insultsInit took the wake path
\*   opened    prefs.begin returned true in it
\*   loaded    what loadInsultsStateFromNvs returned in it
\*   afterLoad the restorable state when loadInsultsStateFromNvs returned
WakeObs0 == [woke |-> FALSE, opened |-> FALSE, loaded |-> FALSE, afterLoad |-> <<>>]

InitWake ==
    /\ \E n \in 1..MaxWakeCount : StaticInit(n) /\ nvs \in Stores(n)
    /\ ButtonUnused /\ HostUnused
    /\ call = "static" /\ ret = FALSE
    /\ obs = WakeObs0

ColdBoot(printInsultOnBoot) ==
    /\ call = "static"
    /\ \E r \in insultsInitCold(insultCount, Engine, printInsultOnBoot) :
          /\ EngineBecomes(r.s)
          /\ ret' = r.ret
    /\ call' = "insultsInit"
    /\ obs' = obs
    /\ UNCHANGED <<nvs, hostVars, buttonVars>>

\* Deep sleep: the RTC_DATA_ATTR variables (lines 41-54) keep their values,
\* the operation state (lines 58-66) is initialised again at the reset.
DeepSleep ==
    /\ call \in {"insultsInit", "insultsPersistForSleep"}
    /\ ~obs.woke
    /\ pendingAction' = "None"
    /\ operationPhase' = "Idle"
    /\ operationIsNewInsult' = FALSE
    /\ operationStartedAt' = ZeroTime
    /\ pendingInsultIndex' = 0
    /\ call' = "sleep" /\ ret' = FALSE
    /\ obs' = obs
    /\ UNCHANGED <<insultCount, deckVars, historyVars, currentInsultIndex,
                   nvs, hostVars, buttonVars>>

WakeInit(printInsultOnBoot, opened) ==
    /\ call = "sleep"
    /\ \E r \in insultsInitWake(insultCount, Engine, nvs, printInsultOnBoot, opened) :
          /\ EngineBecomes(r.s)
          /\ ret' = r.ret
          /\ obs' = [woke |-> TRUE, opened |-> opened, loaded |-> r.loaded.ret,
                     afterLoad |-> Restorable(r.loaded.s)]
    /\ call' = "insultsInit"
    /\ UNCHANGED <<nvs, hostVars, buttonVars>>

NextWake ==
    \/ \E p \in BOOLEAN : ColdBoot(p)
    \/ DeepSleep
    \/ \E p \in BOOLEAN, o \in BOOLEAN : WakeInit(p, o)

SpecWake == InitWake /\ [][NextWake]_vars

\* The five conditions of a valid blob, on the keys in the store.
MagicOk == nvs.m = NVS_MAGIC
CurOk == nvs.cur < insultCount
SizeOk == nvs.hS <= HISTORY_CAP
HeadOk == nvs.hH < HISTORY_CAP
CursorOk == nvs.hP <= (IF nvs.hS - 1 > 0 THEN nvs.hS - 1 ELSE 0)

\* C17: loadInsultsStateFromNvs returns true only for a stored blob whose
\* magic marker is the expected one, whose CurrentIndex is below N, whose size
\* is at most the capacity, whose head is below the capacity and whose cursor
\* is at most max(0, size - 1); a blob violating any of these is rejected.
C17_RestoreOnlyValidBlob ==
    (call = "insultsInit" /\ obs.woke /\ obs.loaded)
        => MagicOk /\ CurOk /\ SizeOk /\ HeadOk /\ CursorOk

\* A blob of a full history of two with the cursor on the older entry was
\* restored.
C17_Witness ==
    /\ call = "insultsInit" /\ obs.woke /\ obs.loaded
    /\ nvs.hS = 2 /\ nvs.hP = 0 /\ nvs.hH = 1 /\ nvs.cur = 1
    /\ historySize = 2 /\ historyPosition = 0 /\ historyHead = 1
    /\ currentInsultIndex = 1

\* C18: a wake that finds a blob whose cursor is above size - 1, or that fails
\* any other validation, does not restore, and insultsInit ends in the seeded
\* state: size 1, cursor 0, get(0) == CurrentIndex == the item drawn from the
\* freshly reset deck.
C18_InvalidBlobSeedsFresh ==
    (call = "insultsInit" /\ obs.woke)
        => /\ ~(MagicOk /\ CurOk /\ SizeOk /\ HeadOk /\ CursorOk) => ~obs.loaded
           /\ ~obs.loaded
                => /\ ret = TRUE
                   /\ historySize = 1 /\ historyPosition = 0
                   /\ Get(0) = [ok |-> TRUE, value |-> currentInsultIndex]
                   /\ deck \in InitDeck(insultCount)
                   /\ deckPosition = 1
                   /\ currentInsultIndex = deck[0]

\* A wake after a boot that had shown an insult found a blob that is valid but
\* for its cursor, which is one past size - 1, and seeded the history with
\* the second item.
C18_Witness ==
    /\ call = "insultsInit" /\ obs.woke /\ obs.opened /\ ~obs.loaded
    /\ MagicOk /\ CurOk /\ SizeOk /\ HeadOk
    /\ nvs.hS = 1 /\ nvs.hP = 1
    /\ ArrayLen(nvs.hist) = HISTORY_CAP
    /\ historySize = 1 /\ currentInsultIndex = 1

\* C19: a restore that fails applies nothing: when loadInsultsStateFromNvs
\* returns false, CurrentIndex, head, size, cursor and the raw history array
\* are what they were before the call.
C19_Original ==
    [][(call' = "insultsInit" /\ obs'.woke /\ ~obs'.loaded)
          => obs'.afterLoad = Restorable(Engine)]_vars

\* What a failed restore does leave as it was: CurrentIndex, head, size and
\* cursor; and the history array too, unless the blob got past the magic and
\* length tests, when line 303 has read the stored array into it.
FailedRestoreKeepsMetadata ==
    [][(call' = "insultsInit" /\ obs'.woke /\ ~obs'.loaded)
          => /\ [obs'.afterLoad EXCEPT !.history = history] = Restorable(Engine)
             /\ obs'.afterLoad.history \in {history, nvs.hist}]_vars

-----------------------------------------------------------------------------
(* Specification SpecSleep: a cold boot, operations started and polled in   *)
(* any order, a save, one deep sleep and the wake from it                   *)

\* Largest number of items of the builds of this specification.
MaxSleepCount == 2

\* What is logged of a run:
\*   saved    the restorable state when insultsPersistForSleep was called
\*   savedOk  prefs.begin returned true in it
\*   woke, opened, loaded  as in SpecWake
SleepObs0 ==
    [saved |-> <<>>, savedOk |-> FALSE, woke |-> FALSE, opened |-> FALSE,
     loaded |-> FALSE]

InitSleep ==
    /\ \E n \in 1..MaxSleepCount : StaticInit(n)
    /\ ButtonUnused /\ StoreUnused /\ HostUnused
    /\ call = "static" /\ ret = FALSE
    /\ obs = SleepObs0

\* The device is up: booted, not yet saved for sleep.
Awake ==
    call \in {"insultsInit", "insultsStartOperation", "insultsPoll"} /\ ~obs.woke

SleepStart(action) ==
    /\ Awake
    /\ \E r \in insultsStartOperation(insultCount, Engine, action, ZeroTime) :
          /\ EngineBecomes(r.s)
          /\ ret' = r.ret
    /\ call' = "insultsStartOperation"
    /\ obs' = obs
    /\ UNCHANGED <<nvs, hostVars, buttonVars>>

SleepPoll(e) ==
    /\ Awake
    /\ LET r == insultsPoll(insultCount, Engine, U32Add(operationStartedAt, e))
       IN  /\ EngineBecomes(r.s)
           /\ ret' = r.ret
    /\ call' = "insultsPoll"
    /\ obs' = obs
    /\ UNCHANGED <<nvs, hostVars, buttonVars>>

Persist(opened) ==
    /\ Awake
    /\ nvs' = insultsPersistForSleep(Engine, nvs, opened)
    /\ call' = "insultsPersistForSleep" /\ ret' = FALSE
    /\ obs' = [obs EXCEPT !.saved = Restorable(Engine), !.savedOk = opened]
    /\ UNCHANGED <<engineVars, hostVars, buttonVars>>

\* A reset deeper than deep sleep, which the store is kept for (lines 37-39):
\* the RTC_DATA_ATTR variables too are initialised again.
DeepReset ==
    /\ call = "insultsPersistForSleep"
    /\ deck' = [i \in 0..(insultCount - 1) |-> 0]
    /\ deckPosition' = 0
    /\ history' = [i \in 0..(insultCount - 1) |-> 0]
    /\ historyHead' = 0 /\ historySize' = 0 /\ historyPosition' = 0
    /\ currentInsultIndex' = 0
    /\ pendingAction' = "None"
    /\ operationPhase' = "Idle"
    /\ operationIsNewInsult' = FALSE
    /\ operationStartedAt' = ZeroTime
    /\ pendingInsultIndex' = 0
    /\ call' = "sleep" /\ ret' = FALSE
    /\ obs' = obs
    /\ UNCHANGED <<insultCount, nvs, hostVars, buttonVars>>

SleepWake(printInsultOnBoot, opened) ==
    /\ call = "sleep"
    /\ \E r \in insultsInitWake(insultCount, Engine, nvs, printInsultOnBoot, opened) :
          /\ EngineBecomes(r.s)
          /\ ret' = r.ret
          /\ obs' = [obs EXCEPT !.woke = TRUE, !.opened = opened,
                                !.loaded = r.loaded.ret]
    /\ call' = "insultsInit"
    /\ UNCHANGED <<nvs, hostVars, buttonVars>>

NextSleep ==
    \/ \E p \in BOOLEAN : ColdBoot(p)
    \/ \E a \in Actions : SleepStart(a)
    \/ \E e \in {0, MOCK_WORK_MS} : SleepPoll(e)
    \/ \E o \in BOOLEAN : Persist(o)
    \/ DeepSleep
    \/ DeepReset
    \/ \E p \in BOOLEAN, o \in BOOLEAN : SleepWake(p, o)

SpecSleep == InitSleep /\ [][NextSleep]_vars

\* The save and the wake after it both found the store.
RoundTrip ==
    call = "insultsInit" /\ obs.woke /\ obs.savedOk /\ obs.opened

\* C20: from every engine state reachable from a cold boot with N >= 1 by
\* starts and polls, insultsPersistForSleep followed by a wake-path restore
\* succeeds and gives the CurrentIndex, head, size, cursor and history
\* contents of the time of the save.
C20_SaveRestoreRoundTrip ==
    RoundTrip => /\ obs.loaded /\ ret = TRUE
                 /\ Restorable(Engine) = obs.saved

\* A round trip through a reset that cleared the RTC variables, of a full
\* history of two whose head has wrapped, with the cursor on the older entry
\* and an insult on show that is not that entry.
C20_Witness ==
    /\ RoundTrip /\ obs.loaded
    /\ deckPosition = 0
    /\ historySize = 2 /\ historyHead = 1 /\ historyPosition = 0
    /\ currentInsultIndex # Get(0).value

-----------------------------------------------------------------------------
(* Specification SpecWrap: the device boots shortly before millis() wraps;  *)
(* the button is updated and operations are started and polled at any gaps  *)

\* How many calls a run is followed for.
MaxWrapSteps == 5

\* The gaps between calls: 1 ms, one short of the debounce window, and one
\* short of the 800 ms of the hold and of the mock work.
WrapGaps == {1, DEBOUNCE_TIME_MS - 1, HOLD_THRESHOLD_MS - 1}

\* millis() at boot: 800 ms before the counter wraps.
WrapBoots == {U32(Half - 1, Half - MOCK_WORK_MS)}

\* What is logged of a run, in ms since boot on a clock that does not wrap:
\*   real       the time of the last call
\*   rawChanged the time updateButton last saw the raw level change
\*   pressed    the time updateButton took the button as pressed (-1: never)
\*   started    the time of the last accepted start (-1: none)
\*   waiting    an operation was in flight before the last call
\*   steps      the calls so far
WrapObs0 == [real |-> 0, rawChanged |-> 0, pressed |-> -1, started |-> -1,
             waiting |-> FALSE, steps |-> 0]

InitWrap ==
    /\ EngineUnused /\ StoreUnused /\ HostUnused
    /\ \E t0 \in WrapBoots, raw \in Levels :
          /\ now = t0
          /\ pin = raw
          /\ button = buttonInit(raw, t0)
    /\ call = "static" /\ ret = FALSE
    /\ obs = WrapObs0

WrapUpdate(dt, raw) ==
    /\ call # "static"
    /\ obs.steps < MaxWrapSteps
    /\ UpdateCall(dt, raw)
    /\ obs' = [obs EXCEPT
                 !.real = @ + dt,
                 !.rawChanged = IF raw # button.lastReading THEN obs.real + dt ELSE @,
                 !.pressed = IF button.state = "Idle" /\ button'.state = "Pressed"
                             THEN obs.real + dt ELSE @,
                 !.waiting = operationPhase = "Waiting",
                 !.steps = @ + 1]

WrapStart(dt, action) ==
    /\ call # "static"
    /\ obs.steps < MaxWrapSteps
    /\ now' = U32Add(now, dt)
    /\ \E r \in insultsStartOperation(insultCount, Engine, action, now') :
          /\ EngineBecomes(r.s)
          /\ ret' = r.ret
          /\ obs' = [obs EXCEPT !.real = @ + dt,
                                !.started = IF r.ret THEN obs.real + dt ELSE @,
                                !.waiting = operationPhase = "Waiting",
                                !.steps = @ + 1]
    /\ call' = "insultsStartOperation"
    /\ UNCHANGED <<nvs, hostVars, button, pin>>

WrapPoll(dt) ==
    /\ call # "static"
    /\ obs.steps < MaxWrapSteps
    /\ now' = U32Add(now, dt)
    /\ LET r == insultsPoll(insultCount, Engine, now')
       IN  /\ EngineBecomes(r.s)
           /\ ret' = r.ret
    /\ obs' = [obs EXCEPT !.real = @ + dt,
                          !.waiting = operationPhase = "Waiting",
                          !.steps = @ + 1]
    /\ call' = "insultsPoll"
    /\ UNCHANGED <<nvs, hostVars, button, pin>>

NextWrap ==
    \/ \E p \in BOOLEAN : ColdBoot(p)
    \/ \E dt \in WrapGaps, raw \in Levels : WrapUpdate(dt, raw)
    \/ \E dt \in WrapGaps, a \in Actions : WrapStart(dt, a)
    \/ \E dt \in WrapGaps : WrapPoll(dt)

SpecWrap == InitWrap /\ [][NextWrap]_vars

\* millis() has wrapped since boot.
Wrapped == now.hi = 0

\* The raw level has been stable for the debounce window, on the clock that
\* does not wrap.
StableReal == obs.real - obs.rawChanged >= DEBOUNCE_TIME_MS

\* C21: the elapsed-time comparisons are right across a wrap of the 32-bit
\* clock.  insultsPoll returns true exactly when an operation is in flight
\* and 800 ms have passed since its start; updateButton returns an event and
\* takes a press or a release only when the raw level has been stable for
\* 30 ms, and then does; and outside the debounce window the hold has fired
\* exactly when 800 ms have passed since the press was taken.
C21_ElapsedTimesSurviveWrap ==
    /\ call = "insultsPoll"
          => ret = (obs.waiting /\ obs.real - obs.started >= MOCK_WORK_MS)
    /\ call = "updateButton"
          => /\ ret # "None" => StableReal
             /\ StableReal
                   => button.state = (IF pin = "LOW" THEN "Pressed" ELSE "Idle")
             /\ (StableReal /\ button.state = "Pressed")
                   => button.holdFired
                        = (obs.real - obs.pressed >= HOLD_THRESHOLD_MS)

\* An operation started before the wrap was polled false at 799 ms and true
\* at 800 ms, both after the wrap.
C21_Witness ==
    /\ call = "insultsPoll" /\ ret = TRUE /\ Wrapped
    /\ operationStartedAt.hi = Half - 1
    /\ obs.real - obs.started = MOCK_WORK_MS
    /\ now.lo >= 1

\* A press taken before the wrap fired its hold after it, 800 ms later.
C21_WitnessHold ==
    /\ call = "updateButton" /\ ret = "HoldStart" /\ Wrapped
    /\ button.pressedAt.hi = Half - 1
    /\ obs.real - obs.pressed = HOLD_THRESHOLD_MS

-----------------------------------------------------------------------------
(* The host application of src/main.cpp.  It keeps its own deck, history    *)
(* (not a ring: it is filled once and then clamps) and operation state,     *)
(* under the names insults.cpp uses, so the model keeps them in the same    *)
(* variables; historyHead has no counterpart and stays 0.  Each function    *)
(* takes the program state as a record and gives its outcomes.              *)

\* sizeof(insults) / sizeof(insults[0]) of main.cpp.
MainInsults == 3

PRINT_INSULT_ON_BOOT == TRUE

\* The time the Boot state lasts when no insult is printed on boot (line 564).
BOOT_DELAY_MS == 2000

\* The program state of main.cpp as one record; entered and shown log the
\* application states a function enters and the LED colours it shows.
Host ==
    [deck |-> deck, deckPosition |-> deckPosition,
     history |-> history, historyHead |-> historyHead,
     historySize |-> historySize, historyPosition |-> historyPosition,
     currentInsultIndex |-> currentInsultIndex,
     pendingAction |-> pendingAction, operationPhase |-> operationPhase,
     operationIsNewInsult |-> operationIsNewInsult,
     operationStartedAt |-> operationStartedAt,
     pendingInsultIndex |-> pendingInsultIndex,
     currentState |-> currentState, stateEnteredAt |-> stateEnteredAt,
     led |-> led, entered |-> <<>>, shown |-> <<>>]

\* The step's new program state is h.
HostBecomes(h) ==
    /\ EngineBecomes(h)
    /\ currentState' = h.currentState
    /\ stateEnteredAt' = h.stateEnteredAt
    /\ led' = h.led

\* led.cpp: the colour each call leaves on the LED.
ledShow(h, colour) == [h EXCEPT !.led = colour, !.shown = Append(@, colour)]
ledInit(h) == [h EXCEPT !.led = "Off"]
ledShowBoot(h) == ledShow(h, "Blue")
ledShowIdle(h) == ledShow(h, "Green")
ledShowUpdating(h) == ledShow(h, "Yellow")

\* enterBoot / enterIdle / enterUpdating; t is what millis() returns.
enterState(h, state, t) ==
    [h EXCEPT !.currentState = state, !.stateEnteredAt = t,
              !.entered = Append(@, state)]
enterBoot(h, t) == enterState(ledShowBoot(h), "Boot", t)
enterIdle(h, t) == enterState(ledShowIdle(h), "Idle", t)
enterUpdating(h, t) == enterState(ledShowUpdating(h), "Updating", t)

\* initDeck() and drawFromDeck() of main.cpp are those of insults.cpp.
main_initDeck(n) == InitDeck(n)
main_drawFromDeck(n, dk, pos) == DrawFromDeck(n, dk, pos)

\* appendToHistory() of main.cpp: a full history is left as it is and the
\* cursor is put at its newest entry.
main_appendToHistory(h, cap, index) ==
    IF cap = 0 THEN h
    ELSE IF h.historySize < cap
         THEN [h EXCEPT !.history[h.historySize] = index,
                        !.historySize = @ + 1,
                        !.historyPosition = h.historySize]
         ELSE [h EXCEPT !.historyPosition = h.historySize - 1]

\* Lines 317-319, 349-351: draw a new insult and wait.
main_BeginDraw(n, h) ==
    {[h EXCEPT !.deck = o.deck, !.deckPosition = o.deckPosition,
               !.pendingInsultIndex = o.idx,
               !.operationIsNewInsult = TRUE,
               !.operationPhase = "Waiting"] :
        o \in main_drawFromDeck(n, h.deck, h.deckPosition)}

\* Lines 333-335, 342-344: the cursor moves by d and its entry is read.
main_BeginAtCursor(h, d) ==
    [h EXCEPT !.historyPosition = @ + d,
              !.pendingInsultIndex = h.history[h.historyPosition + d],
              !.operationPhase = "Waiting"]

\* beginWorkFor() of main.cpp (it returns nothing: the caller looks at
\* operationPhase).
main_beginWorkFor(n, h, action) ==
    LET h0 == [h EXCEPT !.operationIsNewInsult = FALSE]
    IN  CASE action = "Random" -> main_BeginDraw(n, h0)
          [] action = "Prev" ->
                IF h0.historySize = 0 THEN {h0}
                ELSE IF h0.historyPosition = 0 THEN {h0}
                ELSE {main_BeginAtCursor(h0, -1)}
          [] action = "Next" ->
                IF h0.historySize > 0 /\ h0.historyPosition < h0.historySize - 1
                THEN {main_BeginAtCursor(h0, 1)}
                ELSE main_BeginDraw(n, h0)
          [] OTHER -> {h0}

\* A bounce that leaves the pending action set.
BounceKeepsPending(h, t) == enterIdle(h, t)

\* Lines 377-380: no work was begun.
BounceToIdle(h, t) == enterIdle([h EXCEPT !.pendingAction = "None"], t)

startOperation(n, h, action, t) ==
    LET h1 == [h EXCEPT !.pendingAction = action, !.operationPhase = "Idle",
                        !.operationIsNewInsult = FALSE,
                        !.operationStartedAt = t]
        h2 == enterUpdating(h1, t)
    IN  {IF r.operationPhase # "Waiting" THEN BounceToIdle(r, t) ELSE r :
            r \in main_beginWorkFor(n, h2, action)}

\* A latency test that is never over.
main_WorkPendingForever(h, t) == TRUE

\* Line 399: the simulated work is not over yet.
main_WorkPending(h, t) == U32Less(U32Sub(t, h.operationStartedAt), MOCK_WORK_MS)

pollOperation(n, h, t) ==
    IF h.operationPhase # "Waiting" THEN h
    ELSE IF main_WorkPending(h, t) THEN h
    ELSE LET completedAction == h.pendingAction
             h1 == [h EXCEPT !.currentInsultIndex = h.pendingInsultIndex]
             h2 == IF completedAction = "Random"
                   THEN main_appendToHistory(h1, n, h1.currentInsultIndex)
                   ELSE IF completedAction = "Next" /\ h1.operationIsNewInsult
                   THEN main_appendToHistory(h1, n, h1.currentInsultIndex)
                   ELSE h1
             h3 == [h2 EXCEPT !.pendingAction = "None",
                              !.operationPhase = "Idle",
                              !.operationIsNewInsult = FALSE]
         IN  enterIdle(h3, t)

\* A test that lets a tap start work in any state.
StartAllowedAlways(h) == TRUE

\* Line 464: Random/Next/Prev start work only from Idle.
StartAllowed(h) == h.currentState = "Idle"

\* handleButtonEvent(): its outcomes [h, started], started being the action
\* startOperation was called with, "None" when it was not called.
handleButtonEvent(n, h, buttonId, event, t) ==
    IF event = "None" THEN {[h |-> h, started |-> "None"]}
    ELSE IF buttonId = "Sleep" THEN {[h |-> h, started |-> "None"]}
    ELSE IF ~StartAllowed(h) THEN {[h |-> h, started |-> "None"]}
    ELSE IF event = "Tap"
         THEN {[h |-> r, started |-> buttonId] :
                  r \in startOperation(n, h, buttonId, t)}
         ELSE {[h |-> h, started |-> "None"]}

\* setup(), from ledInit() on.
setup(n, h, t) ==
    UNION {
      LET h1 == enterBoot([ledInit(h) EXCEPT !.deck = d, !.deckPosition = 0,
                                             !.historySize = 0,
                                             !.historyPosition = 0], t)
      IN  IF PRINT_INSULT_ON_BOOT /\ n > 0
          THEN {enterIdle(main_appendToHistory(
                             [h1 EXCEPT !.deck = o.deck,
                                        !.deckPosition = o.deckPosition,
                                        !.currentInsultIndex = o.idx],
                             n, o.idx), t) :
                   o \in main_drawFromDeck(n, h1.deck, h1.deckPosition)}
          ELSE {h1}
      : d \in main_initDeck(n)}

\* Lines 560-576: the state machine at the end of loop().
loopStateMachine(n, h, t) ==
    CASE h.currentState = "Boot" ->
            IF ~PRINT_INSULT_ON_BOOT
               /\ ~U32Less(U32Sub(t, h.stateEnteredAt), BOOT_DELAY_MS)
            THEN enterIdle(h, t) ELSE h
      [] h.currentState = "Idle" -> h
      [] h.currentState = "Updating" -> pollOperation(n, h, t)

-----------------------------------------------------------------------------
(* Specification SpecHost: setup(), then loop() again and again.  A loop()  *)
(* iteration is followed in steps: the four updateButton calls, each of the *)
(* four handleButtonEvent calls, the state machine.                         *)

\* The run is followed until millis() is MaxClock.
MaxClock == 2400

\* millis() between two loop() iterations: the same, or half the mock work.
HostGaps == {0, MOCK_WORK_MS \div 2}

\* The buttons in the order loop() handles them.
ButtonIds == <<"Sleep", "Random", "Next", "Prev">>

\* What updateButton returns to loop() for a button: the Button objects are
\* those of the DebounceGesture specifications and are not followed here; a
\* button can be released in the tick another one is.
HostEvents == {"None", "Tap", "HoldStart"}

\* What is logged of a run:
\*   starts    the startOperation calls of this loop() iteration
\*   phase     operationPhase when startOperation was last called
\*   from      the application state when startOperation was last called
\*   tapped    the last handleButtonEvent call was for a Tap of this button
\*   started   what that call started ("None": nothing)
\*   entered   the application states the last step entered, in order
\*   shown     the LED colours the last step showed, in order
\*   chosen    pendingInsultIndex after the last start that was let wait
HostObs0 == [starts |-> 0, phase |-> "Idle", from |-> "Idle", tapped |-> "None",
             started |-> "None", entered |-> <<>>, shown |-> <<>>, chosen |-> 0]

InitHost ==
    /\ StaticInit(MainInsults)
    /\ ButtonUnused /\ StoreUnused /\ HostUnused
    /\ call = "static" /\ ret = FALSE
    /\ obs = HostObs0

Setup ==
    /\ loopFrame.at = "reset"
    /\ \E h \in setup(insultCount, Host, now) :
          /\ HostBecomes(h)
          /\ obs' = [obs EXCEPT !.entered = h.entered, !.shown = h.shown]
    /\ loopFrame' = [at |-> "top", events |-> <<>>]
    /\ call' = "setup" /\ ret' = FALSE
    /\ UNCHANGED <<nvs, buttonVars>>

\* Lines 543-549: loop() reads the clock and updates the four buttons.  No
\* button is tapped when the run ends before the work could.
LoopPoll(dt, evs) ==
    /\ loopFrame.at = "top"
    /\ now.lo + dt <= MaxClock
    /\ now' = U32Add(now, dt)
    /\ (\E i \in 1..4 : evs[i] = "Tap") => now.lo + dt + MOCK_WORK_MS <= MaxClock
    /\ loopFrame' = [at |-> "handle",
                     events |-> [i \in 1..4 |-> <<ButtonIds[i], evs[i]>>]]
    /\ obs' = [obs EXCEPT !.starts = 0, !.tapped = "None", !.started = "None",
                          !.entered = <<>>, !.shown = <<>>]
    /\ call' = "updateButton" /\ ret' = FALSE
    /\ UNCHANGED <<engineVars, nvs, button, pin, currentState, stateEnteredAt, led>>

\* Lines 551-557: the next handleButtonEvent call of the iteration.
HandleEvent ==
    /\ loopFrame.at = "handle"
    /\ LET e == Head(loopFrame.events)
           rest == Tail(loopFrame.events)
       IN  /\ \E r \in handleButtonEvent(insultCount, Host, e[1], e[2], now) :
                /\ HostBecomes(r.h)
                /\ obs' = [obs EXCEPT
                             !.starts = IF r.started # "None" THEN @ + 1 ELSE @,
                             !.phase = IF r.started # "None" THEN operationPhase ELSE @,
                             !.from = IF r.started # "None" THEN currentState ELSE @,
                             !.tapped = IF e[2] = "Tap" /\ e[1] # "Sleep"
                                        THEN e[1] ELSE "None",
                             !.started = r.started,
                             !.entered = r.h.entered,
                             !.shown = r.h.shown,
                             !.chosen = IF r.h.operationPhase = "Waiting"
                                           /\ r.started # "None"
                                        THEN r.h.pendingInsultIndex ELSE @]
           /\ loopFrame' = [at |-> IF rest = <<>> THEN "switch" ELSE "handle",
                            events |-> rest]
    /\ call' = "handleButtonEvent" /\ ret' = FALSE
    /\ UNCHANGED <<nvs, buttonVars>>

\* Lines 560-576: the state machine; the iteration is over.
LoopSwitch ==
    /\ loopFrame.at = "switch"
    /\ LET h == loopStateMachine(insultCount, Host, now)
       IN  /\ HostBecomes(h)
           /\ obs' = [obs EXCEPT !.tapped = "None", !.started = "None",
                                 !.entered = h.entered, !.shown = h.shown]
    /\ loopFrame' = [at |-> "top", events |-> <<>>]
    /\ call' = "loop" /\ ret' = FALSE
    /\ UNCHANGED <<nvs, buttonVars>>

\* A loop() iteration that begins later on the clock than the one before.
LoopAdvance == \E dt \in HostGaps \ {0}, evs \in [1..4 -> HostEvents] : LoopPoll(dt, evs)

NextHost ==
    \/ Setup
    \/ \E dt \in HostGaps, evs \in [1..4 -> HostEvents] : LoopPoll(dt, evs)
    \/ HandleEvent
    \/ LoopSwitch

SpecHost == InitHost /\ [][NextHost]_vars

\* loop() keeps being called, and the clock keeps advancing between calls.
SpecHostFair ==
    /\ InitHost /\ [][NextHost]_vars
    /\ WF_vars(NextHost)
    /\ SF_vars(LoopAdvance)

\* The handleButtonEvent call the step is about to make is for a Tap of
\* Random, Next or Prev.
TapNext ==
    /\ loopFrame.at = "handle"
    /\ Head(loopFrame.events)[1] # "Sleep"
    /\ Head(loopFrame.events)[2] = "Tap"

\* C22: a Random/Next/Prev tap calls startOperation only when the
\* application state is Idle, and never while operationPhase is Waiting; a
\* tap handled while Updating leaves the pending operation, the history, the
\* deck and the current index as they are; and a loop() iteration calls
\* startOperation at most once, whatever the buttons report.
C22_TapStartsOnlyFromIdle ==
    [][/\ obs'.starts <= 1
       /\ obs'.started # "None"
            => (obs'.from = "Idle" /\ obs'.phase # "Waiting")
       /\ (TapNext /\ currentState = "Updating")
            => UNCHANGED <<deckVars, historyVars, opVars>>
       /\ (TapNext /\ currentState # "Idle") => obs'.started = "None"]_vars

\* Random and Next were tapped in the same tick: Random started an
\* operation and the Next tap has just been dropped.
C22_Witness ==
    /\ call = "handleButtonEvent"
    /\ obs.tapped = "Next" /\ obs.started = "None"
    /\ obs.starts = 1
    /\ currentState = "Updating" /\ pendingAction = "Random"

\* C23 as stated: a tap whose intent is rejected never changes the
\* application mode; while it is handled the application state never becomes
\* Updating and the LED never shows the busy colour.
C23_Original ==
    (call = "handleButtonEvent" /\ obs.started # "None"
        /\ operationPhase # "Waiting")
      => (\A i \in DOMAIN obs.entered : obs.entered[i] # "Updating")
         /\ (\A i \in DOMAIN obs.shown : obs.shown[i] # "Yellow")

\* What does hold of a rejected tap: when handleButtonEvent returns, the
\* application is Idle again, the LED shows the idle colour, and nothing of
\* the operation is pending.
RejectedTapEndsIdle ==
    (call = "handleButtonEvent" /\ obs.started # "None"
        /\ operationPhase # "Waiting")
      => /\ currentState = "Idle" /\ led = "Green"
         /\ pendingAction = "None"
         /\ obs.started = "Prev"

\* C28: with loop() called again and again and the clock advancing, every
\* operation that puts the application in Updating completes: the
\* application is Idle again, operationPhase is Idle and currentInsultIndex
\* is the index that was chosen when the operation started.
C28_UpdatingLeadsToCompletion ==
    (currentState = "Updating")
       ~> (/\ currentState = "Idle"
           /\ operationPhase = "Idle"
           /\ currentInsultIndex = obs.chosen
           /\ call = "loop" /\ obs.entered = <<"Idle">>)

\* An operation has just completed, in a later iteration than the one that
\* started it.
C28_Witness ==
    /\ call = "loop" /\ obs.entered = <<"Idle">>
    /\ currentState = "Idle" /\ operationPhase = "Idle"
    /\ currentInsultIndex = obs.chosen
    /\ historySize = 2
    /\ now.lo = MOCK_WORK_MS

\* C29: at the end of setup() and of every loop() iteration the application
\* is Updating exactly when operationPhase is Waiting, and pendingAction is
\* not None exactly when operationPhase is Waiting.
C29_UpdatingIffWaiting ==
    loopFrame.at = "top"
      => /\ (currentState = "Updating") = (operationPhase = "Waiting")
         /\ (pendingAction # "None") = (operationPhase = "Waiting")

\* A loop() iteration ends with an operation in flight, and another after a
\* rejected Prev tap.
C29_Witness ==
    /\ loopFrame.at = "top" /\ call = "loop"
    /\ currentState = "Updating" /\ operationPhase = "Waiting"
    /\ pendingAction = "Prev"

-----------------------------------------------------------------------------
(* Specification SpecLife: the four entry points of insults.h called in any *)
(* order on a device whose store holds any blob: insultsInit on the cold or *)
(* the wake path, insultsStartOperation in any phase, insultsPoll before or *)
(* after the latency, insultsPersistForSleep, and deep sleep between them.  *)

\* Largest number of content items a build is checked with.
MaxLifeCount == 2

\* How many calls a run is followed for.
MaxLifeSteps == 5

\* What is logged of a run: the last insultsInit restored the stored blob;
\* the calls so far.
LifeObs0 == [restored |-> FALSE, steps |-> 0]

\* The blobs the store may hold at first: none, or one that has the magic
\* and the length of history[], which are all that get past lines 284-301,
\* with each number, and the entries of the stored history, at the ends of
\* the valid range or the first invalid value.
LifeStores(n) ==
    {EmptyStore} \cup
    {[m |-> NVS_MAGIC, cur |-> c, hH |-> h, hS |-> sz, hP |-> pos,
      hist |-> [i \in 0..(n - 1) |-> v]] :
        c \in {n - 1, n}, h \in {0, n - 1, n}, sz \in {0, n, n + 1},
        pos \in {0, n - 1, n}, v \in {0, n}}

InitLife ==
    /\ \E n \in 1..MaxLifeCount : StaticInit(n) /\ nvs \in LifeStores(n)
    /\ ButtonUnused /\ HostUnused
    /\ call = "static" /\ ret = FALSE
    /\ obs = LifeObs0

\* The device is running: insultsInit has returned and the device has not
\* been put to sleep since.
LifeAwake == call \in {"insultsInit", "insultsStartOperation", "insultsPoll"}

LifeInit(printInsultOnBoot, wokeFromSleep, opened) ==
    /\ call \in {"static", "sleep"}
    /\ obs.steps < MaxLifeSteps
    /\ IF wokeFromSleep
       THEN \E r \in insultsInitWake(insultCount, Engine, nvs, printInsultOnBoot, opened) :
               /\ EngineBecomes(r.s)
               /\ ret' = r.ret
               /\ obs' = [obs EXCEPT !.restored = r.loaded.ret, !.steps = @ + 1]
       ELSE \E r \in insultsInitCold(insultCount, Engine, printInsultOnBoot) :
               /\ EngineBecomes(r.s)
               /\ ret' = r.ret
               /\ obs' = [obs EXCEPT !.restored = FALSE, !.steps = @ + 1]
    /\ call' = "insultsInit"
    /\ UNCHANGED <<nvs, hostVars, buttonVars>>

LifeStart(action) ==
    /\ LifeAwake
    /\ \E r \in insultsStartOperation(insultCount, Engine, action, ZeroTime) :
          /\ EngineBecomes(r.s)
          /\ ret' = r.ret
    /\ call' = "insultsStartOperation"
    /\ obs.steps < MaxLifeSteps
    /\ obs' = [obs EXCEPT !.steps = @ + 1]
    /\ UNCHANGED <<nvs, hostVars, buttonVars>>

LifePoll(e) ==
    /\ LifeAwake
    /\ LET r == insultsPoll(insultCount, Engine, U32Add(operationStartedAt, e))
       IN  /\ EngineBecomes(r.s)
           /\ ret' = r.ret
    /\ call' = "insultsPoll"
    /\ obs.steps < MaxLifeSteps
    /\ obs' = [obs EXCEPT !.steps = @ + 1]
    /\ UNCHANGED <<nvs, hostVars, buttonVars>>

LifePersist(opened) ==
    /\ LifeAwake
    /\ nvs' = insultsPersistForSleep(Engine, nvs, opened)
    /\ call' = "insultsPersistForSleep" /\ ret' = FALSE
    /\ obs.steps < MaxLifeSteps
    /\ obs' = [obs EXCEPT !.steps = @ + 1]
    /\ UNCHANGED <<engineVars, hostVars, buttonVars>>

\* Deep sleep: the RTC_DATA_ATTR variables keep their values, the operation
\* state is initialised again.
LifeSleep ==
    /\ LifeAwake \/ call = "insultsPersistForSleep"
    /\ pendingAction' = "None"
    /\ operationPhase' = "Idle"
    /\ operationIsNewInsult' = FALSE
    /\ operationStartedAt' = ZeroTime
    /\ pendingInsultIndex' = 0
    /\ call' = "sleep" /\ ret' = FALSE
    /\ obs.steps < MaxLifeSteps
    /\ obs' = [obs EXCEPT !.steps = @ + 1]
    /\ UNCHANGED <<insultCount, deckVars, historyVars, currentInsultIndex,
                   nvs, hostVars, buttonVars>>

NextLife ==
    \/ \E p \in BOOLEAN, w \in BOOLEAN, o \in BOOLEAN : LifeInit(p, w, o)
    \/ \E a \in Actions : LifeStart(a)
    \/ \E e \in {0, MOCK_WORK_MS} : LifePoll(e)
    \/ \E o \in BOOLEAN : LifePersist(o)
    \/ LifeSleep

SpecLife == InitLife /\ [][NextLife]_vars

\* C24: on a build with at least one item, in every state that insultsInit
\* (cold or wake, whatever the store holds), insultsStartOperation,
\* insultsPoll and insultsPersistForSleep reach in any order, the history
\* size is at most the capacity, the head is below the capacity, and the
\* cursor is at most size - 1 (0 when the history is empty); also while an
\* operation is in flight.
C24_HistoryMetadataInRange ==
    /\ historySize <= HISTORY_CAP
    /\ historyHead < HISTORY_CAP
    /\ historyPosition <= (IF historySize > 0 THEN historySize - 1 ELSE 0)

\* A Prev is in flight on a history that a wake restored from the store.
C24_Witness ==
    /\ obs.restored
    /\ call = "insultsStartOperation" /\ ret = TRUE
    /\ operationPhase = "Waiting" /\ pendingAction = "Prev"
    /\ historySize = HISTORY_CAP /\ historyHead = 1 /\ historyPosition = 0

\* C27: the history contents, head and size and CurrentIndex are changed
\* only by an insultsPoll that returns true (and by insultsInit): every
\* insultsStartOperation, accepted or rejected and in whatever phase, every
\* insultsPoll that returns false, and insultsPersistForSleep and deep sleep
\* leave all four as they are.
C27_OnlyCompletionChangesHistory ==
    [][(\/ call' = "insultsStartOperation"
        \/ (call' = "insultsPoll" /\ ret' = FALSE)
        \/ call' \in {"insultsPersistForSleep", "sleep"})
          => UNCHANGED <<history, historyHead, historySize, currentInsultIndex>>]_vars

\* A Random is in flight on a full history and has been polled before its
\* latency was over: the index it drew is not yet the current one.
C27_Witness ==
    /\ call = "insultsPoll" /\ ret = FALSE
    /\ operationPhase = "Waiting" /\ pendingAction = "Random"
    /\ historySize = HISTORY_CAP /\ insultCount = 2
    /\ pendingInsultIndex # currentInsultIndex

\* C30: from a cold boot, with operations begun only while none is in
\* flight, whenever no operation is in flight and the history is not empty
\* the entry at the cursor is the current index: get(cursor) == CurrentIndex.
C30_CursorEntryIsCurrent ==
    (call # "static" /\ operationPhase = "Idle" /\ historySize > 0)
      => Get(historyPosition) = [ok |-> TRUE, value |-> currentInsultIndex]

\* A Prev has completed in the middle of a full history of four whose head
\* has gone round the ring, and the entry it is at is not the newest one.
C30_Witness ==
    /\ call = "insultsPoll" /\ ret = TRUE /\ obs.action = "Prev"
    /\ operationPhase = "Idle"
    /\ insultCount = 4 /\ historySize = 4 /\ historyHead = 2
    /\ historyPosition = 1
    /\ Get(1).value = currentInsultIndex
    /\ Get(3).value # currentInsultIndex

\* C31 as stated: in the host of main.cpp, whenever the application is Idle
\* and the history is not empty, history[historyPosition] is the current
\* index, also after more new insults than HISTORY_CAP.
C31_Original ==
    (currentState = "Idle" /\ historySize > 0)
      => history[historyPosition] = currentInsultIndex

\* What does hold: the entry at the cursor is the current index as long as
\* the last completed operation was no draw on a full history.
CursorEntryIsCurrentUntilFull ==
    (currentState = "Idle" /\ historySize > 0 /\ historySize < HISTORY_CAP)
      => history[historyPosition] = currentInsultIndex

\* C32 as stated: on a build with at least one item the current index is
\* below N in every state, and so is every index a completing poll makes
\* current, also after a restore of a stored blob that passed the validation.
C32_Original == currentInsultIndex < insultCount

\* What does hold: the index a successful restore itself applies is below N;
\* only an entry of the restored history, replayed later, can exceed it.
RestoredIndexValid ==
    (call = "insultsInit" /\ obs.restored) => currentInsultIndex < insultCount

-----------------------------------------------------------------------------
(* Specification SpecTrip: navigation round trips. The engine is booted    *)
(* cold or woken over a store holding any blob, operations are begun only  *)
(* while none is in flight, and each Prev accepted at a cursor above 0 is  *)
(* followed through its completion and that of a Next begun right after.   *)

\* Largest number of content items a build is checked with.
MaxTripCount == 3

\* How many calls a run is followed for.
MaxTripSteps == 7

\* What beginWorkFor and insultsPoll may write of the history and the deck.
TripState ==
    [cursor |-> historyPosition, current |-> currentInsultIndex,
     history |-> history, head |-> historyHead, size |-> historySize,
     deck |-> deck, deckPosition |-> deckPosition]

\* What is logged of a run: how far the round trip under way has come
\* ("none", "prev" begun, "back" completed, "next" begun, "done"), the state
\* the Prev was begun in, whether insultsInit restored the stored blob, the
\* calls so far.
TripObs0 == [stage |-> "none", from |-> <<>>, restored |-> FALSE, steps |-> 0]

InitTrip ==
    /\ \E n \in 1..MaxTripCount : StaticInit(n) /\ nvs \in LifeStores(n)
    /\ ButtonUnused /\ HostUnused
    /\ call = "static" /\ ret = FALSE
    /\ obs = TripObs0

TripInit(printInsultOnBoot, wokeFromSleep) ==
    /\ call = "static"
    /\ IF wokeFromSleep
       THEN \E r \in insultsInitWake(insultCount, Engine, nvs, printInsultOnBoot, TRUE) :
               /\ EngineBecomes(r.s)
               /\ ret' = r.ret
               /\ obs' = [obs EXCEPT !.restored = r.loaded.ret, !.steps = @ + 1]
       ELSE \E r \in insultsInitCold(insultCount, Engine, printInsultOnBoot) :
               /\ EngineBecomes(r.s)
               /\ ret' = r.ret
               /\ obs' = [obs EXCEPT !.steps = @ + 1]
    /\ call' = "insultsInit"
    /\ UNCHANGED <<nvs, hostVars, buttonVars>>

TripStart(action) ==
    /\ call # "static"
    /\ operationPhase = "Idle"
    /\ obs.steps < MaxTripSteps
    /\ \E r \in insultsStartOperation(insultCount, Engine, action, ZeroTime) :
          /\ EngineBecomes(r.s)
          /\ ret' = r.ret
          /\ obs' = [obs EXCEPT
                 !.stage = IF action = "Prev" /\ historyPosition > 0 /\ r.ret
                               THEN "prev"
                           ELSE IF action = "Next" /\ obs.stage = "back" /\ r.ret
                               THEN "next"
                           ELSE "none",
                 !.from = IF action = "Prev" /\ historyPosition > 0 /\ r.ret
                              THEN TripState
                          ELSE IF action = "Next" /\ obs.stage = "back" /\ r.ret
                              THEN @
                          ELSE <<>>,
                 !.steps = @ + 1]
    /\ call' = "insultsStartOperation"
    /\ UNCHANGED <<nvs, hostVars, buttonVars>>

TripPoll(e) ==
    /\ call # "static"
    /\ obs.steps < MaxTripSteps
    /\ LET r == insultsPoll(insultCount, Engine, U32Add(operationStartedAt, e))
       IN  /\ EngineBecomes(r.s)
           /\ ret' = r.ret
           /\ obs' = [obs EXCEPT
                  !.stage = IF ~r.ret THEN @
                            ELSE IF @ = "prev" THEN "back"
                            ELSE IF @ = "next" THEN "done"
                            ELSE "none",
                  !.from = IF r.ret /\ obs.stage \notin {"prev", "next"}
                               THEN <<>> ELSE @,
                  !.steps = @ + 1]
    /\ call' = "insultsPoll"
    /\ UNCHANGED <<nvs, hostVars, buttonVars>>

NextTrip ==
    \/ \E p \in BOOLEAN, w \in BOOLEAN : TripInit(p, w)
    \/ \E a \in Actions : TripStart(a)
    \/ \E e \in {0, MOCK_WORK_MS} : TripPoll(e)

SpecTrip == InitTrip /\ [][NextTrip]_vars

\* C33 as stated: from any Idle state with the cursor above 0, a completed
\* Prev followed by a completed Next restores the cursor and CurrentIndex
\* and leaves the history contents, head, size, the deck and the deck
\* position unchanged.
C33_Original == obs.stage = "done" => TripState = obs.from

\* What does hold: the round trip restores the cursor and leaves history,
\* head, size, deck and deck position unchanged, and CurrentIndex ends as
\* the entry at the cursor; it is the original CurrentIndex whenever the
\* state was not restored from the store.
RoundTripRestoresCursor ==
    obs.stage = "done"
      => /\ [TripState EXCEPT !.current = 0] = [obs.from EXCEPT !.current = 0]
         /\ currentInsultIndex = Get(historyPosition).value
         /\ ~obs.restored => currentInsultIndex = obs.from.current

\* A round trip has completed on a history that was not restored.
RoundTripFromColdBoot == obs.stage = "done" /\ ~obs.restored

-----------------------------------------------------------------------------
(* Specification SpecDisplay: displayValidateConfig of lib/display applied *)
(* to a pin configuration.                                                 *)

\* The buttons' pins as display.cpp lists them (line 11).
kButtonPins == <<4, 5, 6, 7>>

\* The pins of a default DisplayConfig (display.h lines 12-21); -1 is a pin
\* that is not connected.
DefaultPins ==
    [rst |-> 8, dc |-> 9, cs |-> 10, busy |-> 11, mosi |-> 12, sck |-> 13,
     miso |-> -1]

\* Largest pin number a configuration is checked with.
MaxPin == 13

\* How many pins of a configuration differ from the default.
MaxEdits == 2

PinNames == {"rst", "dc", "cs", "busy", "mosi", "sck", "miso"}

\* The configurations validated: the default one with up to MaxEdits pins
\* given any number from -1 to MaxPin. Rotation and refresh mode are not
\* read by the validation.
DisplayConfigs ==
    {[pins |-> [name \in PinNames |->
                    IF name \in DOMAIN edit THEN edit[name] ELSE DefaultPins[name]]] :
        edit \in UNION {[names -> -1..MaxPin] :
                           names \in {e \in SUBSET PinNames : Cardinality(e) <= MaxEdits}}}

\* isInList (lines 18-26): the loop returns in its first iteration, true if
\* the value is the first item of the list and false otherwise; no further
\* item is compared.
isInList(value, list) == value = Head(list)

\* displayValidateConfig (lines 28-62).
displayValidateConfig(config) ==
    LET requiredPins == <<config.pins.cs, config.pins.dc, config.pins.rst,
                          config.pins.sck, config.pins.mosi>>
    IN  IF \E i \in 1..5 : requiredPins[i] < 0 THEN FALSE
        ELSE IF \E i \in 1..5 : isInList(requiredPins[i], kButtonPins) THEN FALSE
        ELSE IF \E first \in 1..5 : \E second \in (first + 1)..5 :
                    requiredPins[first] = requiredPins[second] THEN FALSE
        ELSE IF config.pins.busy >= 0 /\ isInList(config.pins.busy, kButtonPins)
            THEN FALSE
        ELSE IF config.pins.miso >= 0 /\ isInList(config.pins.miso, kButtonPins)
            THEN FALSE
        ELSE TRUE

\* The configuration handed to the validation is logged in obs.config.
InitDisplay ==
    /\ EngineUnused /\ ButtonUnused /\ StoreUnused /\ HostUnused
    /\ call = "static" /\ ret = FALSE
    /\ obs \in [config : DisplayConfigs]

CallDisplayValidateConfig ==
    /\ call = "static"
    /\ ret' = displayValidateConfig(obs.config)
    /\ call' = "displayValidateConfig"
    /\ UNCHANGED <<engineVars, nvs, buttonVars, hostVars, obs>>

NextDisplay == CallDisplayValidateConfig

SpecDisplay == InitDisplay /\ [][NextDisplay]_vars

\* The pins a configuration must connect, and those it connects.
RequiredPins(config) ==
    {config.pins.cs, config.pins.dc, config.pins.rst, config.pins.sck,
     config.pins.mosi}

ConnectedPins(config) ==
    RequiredPins(config) \cup
        {p \in {config.pins.busy, config.pins.miso} : p >= 0}

\* C34 as stated: displayValidateConfig returns false when a required pin or
\* a connected optional pin is one of the button pins 4, 5, 6, 7, when a
\* required pin is negative, or when two required pins are equal, and true
\* otherwise.
C34_Original ==
    call = "displayValidateConfig"
      => (ret = ~ \/ ConnectedPins(obs.config) \cap {4, 5, 6, 7} # {}
                  \/ \E p \in RequiredPins(obs.config) : p < 0
                  \/ Cardinality(RequiredPins(obs.config)) < 5)

\* What does hold: the same with pin 4, the first of the button pins, as
\* the only button pin that is rejected.
ValidateRejectsFirstButtonPin ==
    call = "displayValidateConfig"
      => (ret = ~ \/ 4 \in ConnectedPins(obs.config)
                  \/ \E p \in RequiredPins(obs.config) : p < 0
                  \/ Cardinality(RequiredPins(obs.config)) < 5)

\* A configuration with a display pin on button pin 5, 6 or 7 and nothing
\* else wrong has been accepted.
ButtonPinAccepted ==
    /\ call = "displayValidateConfig" /\ ret
    /\ ConnectedPins(obs.config) \cap {5, 6, 7} # {}

====
